---- MODULE Spec2Model ----
(***************************************************************************)
(* Session engine of the stem-splitting client: the music library and the  *)
(* playback channels of MusicLibraryContext.tsx as a state machine.  React *)
(* state is the committed state; an async handler is split at its awaits,  *)
(* and the part after an await keeps the values its closure captured when  *)
(* the handler was called.                                                 *)
(***************************************************************************)
EXTENDS Integers, Sequences, FiniteSets, TLC

\* ------------------------------------------------------------------ bounds
MaxClock == 2      \* values the client clock (Date.now()) takes
MaxSongs == 1      \* song ids the backend hands out
MaxLoads == 1      \* loadLibrary calls in flight
MaxUploads == 1    \* addAudioFile calls in flight
MaxDeletes == 1    \* removeMusicUrl / clearLibrary backend requests in flight
MaxList == 2       \* length of the visible list an upload still extends
MaxPlays == 2      \* handlePlayToggle calls in flight
MaxAudios == 2     \* Audio elements alive at once
MaxStreak == 3     \* consecutive play calls counted per key
MaxLocal == 3      \* records of a stored list handed to a reconciliation
MaxRemote == 2     \* songs of a /my-songs response handed to a reconciliation
MaxTime == 1       \* positions of an element, in steps of playback
MaxBatches == 1    \* handlePlayAll calls alive at once
MaxVoice == 1      \* voice sessions of a run that plays by voice
MaxMix == 3        \* Audio elements alive at once in a mix of three stems
MaxFiles == 3      \* files of a track whose layers are derived
MaxSessions == 4   \* startListening calls of one SpeechControl
Quantum == 5000    \* ms by which the clock of a voice session advances

\* --------------------------------------------------------------- constants
Users == {"alice", "bob"}
NoUser == "anonymous"          \* currentUser === null
NoSong == 0                    \* song_id undefined
NoKey == "none"                \* cacheKey undefined
CacheKeys == {"k1"}            \* values of the X-Cache-Key header
NoId == <<"none", 0>>          \* no track id (a bulk request)
InvalidDate == -1              \* a Date whose getTime() is NaN
NoEntry == <<"absent">>        \* localStorage.getItem(STORAGE_KEY) === null
NoAudio == 0                   \* no Audio element
NoSession == 0                 \* socketRef.current / mediaRecorderRef.current === null
NoTimer == -1                  \* timeoutRef.current === null
NoTime == -1                   \* currentTimes[key] === undefined
NoBatch == 0                   \* a handlePlayToggle call nothing awaits
Fired == 0                     \* a timeout handle whose callback has run
InactivityTimeout == 10000     \* setTimeout(..., 10000)

VARIABLES
    currentUser,     \* useAuth().currentUser
    urls,            \* useState<MusicUrl[]>: the visible list
    isInitialized,   \* useState(false)
    isLoading,       \* useState(false)
    storage,         \* localStorage[STORAGE_KEY]: NoEntry or <<"json", list>>
    remote,          \* the backend's songs: set of [song_id, uid, created_at]
    now,             \* the client clock
    loads,           \* loadLibrary calls suspended at an await
    uploads,         \* addAudioFile calls suspended at the upload fetch
    deletes,         \* removeMusicUrl / clearLibrary calls suspended at DELETE
    nextSong,        \* the next song id the backend hands out
    audioPool,       \* audioPoolRef.current: Map key -> Audio, insertion order
    audios,          \* the Audio elements created by handlePlayToggle
    playingKeys,     \* useState<Set<string>>
    pausedKeys,      \* useState<Set<string>>
    plays,           \* handlePlayToggle calls suspended at an await
    streak,          \* per key: consecutive undisturbed play calls completed
    last,            \* the last step taken: operation and outcome
    failedUploads,   \* song ids the backend stored for an addAudioFile that threw
    connectionState, \* useState<'offline' | 'connecting' | 'online'>
    isListeningRef,  \* useRef(false)
    socketRef,       \* useRef<WebSocket | null>: a session, NoSession for null
    mediaRecorderRef,\* useRef<MediaRecorder | null>: a session, NoSession for null
    timeoutRef,      \* useRef<Timeout | null>: ms left, Fired, or NoTimer for null
    sess,            \* per startListening call: its stream, socket and recorder
    starts,          \* startListening calls suspended at getUserMedia
    started,         \* number of startListening calls so far
    playAlls,        \* handlePlayAll calls suspended in their loop
    currentTimes,    \* useState<Record<string, number>>: the time map
    currentTime      \* audio.currentTime of each Audio element

libVars == <<currentUser, urls, isInitialized, isLoading, storage, remote, now,
             loads, uploads, deletes, nextSong>>
playVars == <<audioPool, audios, playingKeys, pausedKeys, plays, streak>>
speechVars == <<connectionState, isListeningRef, socketRef, mediaRecorderRef,
                timeoutRef, sess, starts, started>>
mixVars == <<playAlls, currentTimes, currentTime>>
vars == <<libVars, playVars, last, failedUploads, speechVars, mixVars>>

\* ------------------------------------------------------------------ helpers
Range(s) == {s[i] : i \in 1..Len(s)}

RECURSIVE SelectSeqBy(_, _)
\* Array.prototype.filter, the predicate given as the set of kept values
SelectSeqBy(s, keep) ==
    IF s = <<>> THEN <<>>
    ELSE IF Head(s) \in keep THEN <<Head(s)>> \o SelectSeqBy(Tail(s), keep)
         ELSE SelectSeqBy(Tail(s), keep)

\* (time || 0) of the sort comparators: NaN counts as 0
TimeOf(t) == IF t = InvalidDate THEN 0 ELSE t

\* variant: the list is left in the order it was read
Unsorted(s) == s

RECURSIVE SortByAddedAt(_)
\* [...list].sort((a, b) => (timeB || 0) - (timeA || 0)): stable, descending
SortByAddedAt(s) ==
    IF s = <<>> THEN <<>>
    ELSE LET rest == SortByAddedAt(SubSeq(s, 1, Len(s) - 1))
             x == s[Len(s)]
             k == Cardinality({i \in 1..Len(rest) :
                                 TimeOf(rest[i].addedAt) >= TimeOf(x.addedAt)})
         IN SubSeq(rest, 1, k) \o <<x>> \o SubSeq(rest, k + 1, Len(rest))

\* JSON.stringify of a Date: its ISO string, or null for an invalid Date
DateToJson(t) == IF t = InvalidDate THEN <<"null", 0>> ELSE <<"iso", t>>

\* new Date(url.addedAt) of a stored value: new Date(null) is the epoch,
\* anything that is no date string is an invalid Date
JsonToDate(j) ==
    IF j[1] = "iso" THEN j[2] ELSE IF j[1] = "null" THEN 0 ELSE InvalidDate

\* sanitized = urls.map(u => ({...u, files: filenames only})), stringified
Sanitize(list) ==
    [i \in 1..Len(list) |->
        [id |-> list[i].id, song_id |-> list[i].song_id, uid |-> list[i].uid,
         addedAt |-> DateToJson(list[i].addedAt), cacheKey |-> list[i].cacheKey]]

\* JSON.parse(stored).map(url => ({...url, addedAt: new Date(url.addedAt)}))
ParseStored(list) ==
    [i \in 1..Len(list) |->
        [id |-> list[i].id, song_id |-> list[i].song_id, uid |-> list[i].uid,
         addedAt |-> JsonToDate(list[i].addedAt), cacheKey |-> list[i].cacheKey,
         blob |-> FALSE]]

\* useEffect[urls, isInitialized]: the write-back to durable storage
Persist(list, initialized, old) ==
    IF ~initialized THEN old
    ELSE IF Len(list) > 0 THEN <<"json", Sanitize(list)>>
    ELSE NoEntry

\* variant: no uid filter
OwnedByAnyone(list, user) == list

\* the filter by uid of loadLibrary
OwnedBy(list, user) ==
    SelectSeqBy(list, {u \in Range(list) : u.uid = NoUser \/ u.uid = user})

\* localUrls of loadLibrary
LocalUrls(entry, user) ==
    IF entry = NoEntry THEN <<>> ELSE OwnedBy(ParseStored(entry[2]), user)

\* r2Urls: one record per song of the /my-songs response; a missing
\* created_at (0) is replaced by the client clock
R2Url(song, uid, clock) ==
    [id |-> <<"r2", song.song_id>>, song_id |-> song.song_id, uid |-> uid,
     addedAt |-> IF song.created_at = <<"null", 0>> THEN clock
                 ELSE JsonToDate(song.created_at),
     cacheKey |-> NoKey, blob |-> FALSE]

\* variant: the remote record replaces the local one
RemoteOnly(local, r2) == r2

\* { ...merged[index], ...r2 }: r2 carries every field but cacheKey
Spread(local, r2) == [r2 EXCEPT !.cacheKey = local.cacheKey]

\* merged.findIndex(u => u.song_id === r2.song_id), 0 standing for -1
FindIndex(list, song_id) ==
    LET hits == {i \in 1..Len(list) : list[i].song_id = song_id}
    IN IF hits = {} THEN 0 ELSE CHOOSE i \in hits : \A j \in hits : i <= j

RECURSIVE Merge(_, _)
\* r2Urls.forEach(r2 => replace the first match by song_id, or push)
Merge(merged, r2Urls) ==
    IF r2Urls = <<>> THEN merged
    ELSE LET r2 == Head(r2Urls)
             index == FindIndex(merged, r2.song_id)
         IN Merge(IF index # 0
                  THEN [merged EXCEPT ![index] = Spread(merged[index], r2)]
                  ELSE Append(merged, r2),
                  Tail(r2Urls))

\* what loadLibrary hands to setUrls; response is <<"ok", songs, uid>>,
\* <<"status">> (not ok) or <<"throws">> (token, fetch or body failed)
Reconcile(localUrls, response, clock) ==
    IF response[1] = "ok"
    THEN SortByAddedAt(Merge(localUrls,
            [i \in 1..Len(response[2]) |->
                R2Url(response[2][i], response[3], clock)]))
    ELSE SortByAddedAt(localUrls)

RECURSIVE SongList(_)
\* the /my-songs listing of a set of songs, in song_id order
SongList(songs) ==
    IF songs = {} THEN <<>>
    ELSE LET first == CHOOSE x \in songs : \A y \in songs : x.song_id <= y.song_id
         IN <<first>> \o SongList(songs \ {first})

MySongs(user) == SongList({x \in remote : x.uid = user})

Ids(list) == {list[i].id : i \in 1..Len(list)}

Step(op, threw) == [op |-> op, threw |-> threw]

\* a finished loadLibrary: what it read, what the backend answered
Loaded(user, stored, response) ==
    [op |-> CASE response[1] = "ok" -> "loadOk"
              [] response[1] = "none" -> "mountLocal"
              [] OTHER -> "loadLocal",
     threw |-> FALSE, user |-> user, stored |-> stored, response |-> response]

\* ---------------------------------------------------------------- channels
\* files of a track: a song in remote storage lists the original mix and a
\* stem, an unpacked archive holds the stem
Filenames == {"original.mp3", "vocals.mp3", "drums.mp3"}
FilesOf(u) ==
    IF u.blob
    THEN IF u.cacheKey = "k2" THEN <<"vocals.mp3", "original.mp3", "drums.mp3">>
         ELSE <<"vocals.mp3">>
    ELSE <<"original.mp3", "vocals.mp3">>

NoChannel == <<NoId, "">>
FreeAudio == [key |-> NoChannel, st |-> "free"]

PoolKeys(pool) == {pool[i].key : i \in 1..Len(pool)}
PoolAudios(pool) == {pool[i].audio : i \in 1..Len(pool)}

\* audioPool.get(key), NoAudio standing for undefined
PoolGet(pool, key) ==
    IF key \in PoolKeys(pool)
    THEN (CHOOSE e \in Range(pool) : e.key = key).audio
    ELSE NoAudio

\* an Audio element nothing refers to any more and that is not sounding
Collect(aud, pool, pl) ==
    [a \in DOMAIN aud |->
        IF /\ aud[a].st \in {"paused", "released"}
           /\ a \notin PoolAudios(pool)
           /\ a \notin {p.audio : p \in pl}
        THEN FreeAudio ELSE aud[a]]

\* audio.pause(); audio.src = "" on the given elements
Release(aud, ids) ==
    [a \in DOMAIN aud |-> IF a \in ids THEN [aud[a] EXCEPT !.st = "released"]
                          ELSE aud[a]]

\* a step that disturbs the given keys ends their count of consecutive calls
Disturb(keys) ==
    /\ streak' = [k \in DOMAIN streak |-> IF k \in keys THEN 0 ELSE streak[k]]
    /\ plays' = {IF p.key \in keys THEN [p EXCEPT !.n = 0] ELSE p : p \in plays}

\* the loop of removeMusicUrl over the pool: every channel whose key starts
\* with `${id}__` is paused, released and deleted from the pool and key sets
Teardown(id) ==
    LET hit == {k \in PoolKeys(audioPool) : k[1] = id}
        pool == SelectSeqBy(audioPool, {e \in Range(audioPool) : e.key \notin hit})
    IN /\ audioPool' = pool
       /\ Disturb({k \in DOMAIN streak : k[1] = id})
       /\ audios' = Collect(Release(audios, {PoolGet(audioPool, k) : k \in hit}),
                            pool, plays')
       /\ playingKeys' = playingKeys \ hit
       /\ pausedKeys' = pausedKeys \ hit

\* ------------------------------------------------------------------- state
\* keys of the channels the model plays
TrackIds ==
    {<<"t", c>> : c \in 1..MaxClock} \cup {<<"r2", n>> : n \in 1..MaxSongs}

Keys == {<<id, f>> : id \in TrackIds, f \in Filenames}

\* a provider that has just been constructed: nothing sounds
PlayInit ==
    /\ audioPool = <<>>
    /\ audios = [a \in 1..MaxAudios |-> FreeAudio]
    /\ playingKeys = {}
    /\ pausedKeys = {}
    /\ plays = {}
    /\ streak = [k \in Keys |-> 0]
    /\ playAlls = {}
    /\ currentTimes = [k \in Keys |-> NoTime]
    /\ currentTime = [a \in 1..MaxAudios |-> 0]

\* a SpeechControl that has just been mounted
NoSess ==
    [mic |-> "none", sock |-> "none", rec |-> "none", seen |-> "offline",
     urls |-> <<>>, playingKeys |-> {}]

SpeechInit ==
    /\ connectionState = "offline"
    /\ isListeningRef = FALSE
    /\ socketRef = NoSession
    /\ mediaRecorderRef = NoSession
    /\ timeoutRef = NoTimer
    /\ sess = [n \in 1..MaxSessions |-> NoSess]
    /\ starts = {}
    /\ started = 0

\* a fresh install, nobody signed in, after the mount effect has run
Init ==
    /\ currentUser = NoUser
    /\ urls = <<>>
    /\ isInitialized = TRUE
    /\ isLoading = FALSE
    /\ storage = NoEntry
    /\ remote = {}
    /\ now = 1
    /\ loads = {}
    /\ uploads = {}
    /\ deletes = {}
    /\ nextSong = 1
    /\ PlayInit
    /\ SpeechInit
    /\ failedUploads = {}
    /\ last = Step("mount", FALSE)

\* ----------------------------------------------------------------- library
\* Date.now() advances
Tick ==
    /\ now < MaxClock
    /\ now' = now + 1
    /\ last' = Step("tick", FALSE)
    /\ UNCHANGED <<currentUser, urls, isInitialized, isLoading, storage, remote,
                   loads, uploads, deletes, nextSong, playVars>>
    /\ UNCHANGED <<failedUploads, speechVars, mixVars>>

\* useEffect[currentUser]: setUrls([]); setIsInitialized(false); loadLibrary()
\* up to its first await.  An anonymous session has no await: the sorted
\* local list and isInitialized = true are part of the same commit.
MountEffect(user, pending) ==
    LET localUrls == LocalUrls(storage, user)
    IN IF user = NoUser
       THEN /\ urls' = SortByAddedAt(localUrls)
            /\ isInitialized' = TRUE
            /\ storage' = Persist(urls', TRUE, storage)
            /\ loads' = pending
       ELSE /\ Cardinality(pending) < MaxLoads
            /\ urls' = <<>>
            /\ isInitialized' = FALSE
            /\ storage' = storage
            /\ loads' = pending \cup
                  {[user |-> user, stored |-> storage, localUrls |-> localUrls]}

\* onAuthStateChanged: sign-in, sign-out or another account
SetUser(user) ==
    /\ user # currentUser
    /\ currentUser' = user
    /\ MountEffect(user, loads)
    /\ last' = IF user = NoUser THEN Loaded(user, storage, <<"none">>)
               ELSE Step("setUser", FALSE)
    /\ UNCHANGED <<isLoading, remote, now, uploads, deletes, nextSong, playVars>>
    /\ UNCHANGED <<failedUploads, speechVars, mixVars>>

\* the page is loaded again: the provider is constructed anew and mounts
\* under the persisted identity; suspended handlers and channels are gone
Reload ==
    /\ MountEffect(currentUser, {})
    /\ isLoading' = FALSE
    /\ uploads' = {}
    /\ deletes' = {}
    /\ audioPool' = <<>>
    /\ audios' = [a \in 1..MaxAudios |-> FreeAudio]
    /\ playingKeys' = {}
    /\ pausedKeys' = {}
    /\ plays' = {}
    /\ streak' = [k \in Keys |-> 0]
    /\ playAlls' = {}
    /\ currentTimes' = [k \in Keys |-> NoTime]
    /\ currentTime' = [a \in 1..MaxAudios |-> 0]
    /\ last' = IF currentUser = NoUser THEN Loaded(NoUser, storage, <<"none">>)
               ELSE Step("mount", FALSE)
    /\ UNCHANGED <<currentUser, remote, now, nextSong>>
    /\ UNCHANGED <<failedUploads, speechVars>>

\* the responses a suspended loadLibrary of this user can resume with
Responses(user) == {<<"ok", MySongs(user), user>>, <<"status">>, <<"throws">>}

\* loadLibrary after its awaits: setUrls(sorted); finally setIsInitialized(true)
LoadApply(l, response) ==
    /\ l \in loads
    /\ loads' = loads \ {l}
    /\ urls' = Reconcile(l.localUrls, response, now)
    /\ isInitialized' = TRUE
    /\ storage' = Persist(urls', TRUE, storage)
    /\ UNCHANGED <<currentUser, isLoading, remote, now, uploads, deletes,
                   nextSong, playVars>>
    /\ UNCHANGED <<failedUploads, speechVars, mixVars>>

LoadDone(l, response) ==
    /\ LoadApply(l, response)
    /\ last' = Loaded(l.user, l.stored, response)

\* variant: the terms check is missing
NeverRejected(tosAgreed) == FALSE

\* if (!tosAgreed) throw new Error(...)
Rejected(tosAgreed) == ~tosAgreed

\* addAudioFile up to the upload fetch: the terms check, then the request
AddCall(tosAgreed) ==
    /\ IF Rejected(tosAgreed)
       THEN /\ isLoading' = FALSE
            /\ uploads' = uploads
            /\ last' = Step("addRejected", TRUE)
       ELSE /\ Cardinality(uploads) < MaxUploads
            /\ isLoading' = TRUE
            /\ uploads' = uploads \cup
                  {[user |-> currentUser, stage |-> "sent", song_id |-> NoSong]}
            /\ last' = Step("add", FALSE)
    /\ UNCHANGED <<currentUser, urls, isInitialized, storage, remote, now,
                   loads, deletes, nextSong, playVars>>
    /\ UNCHANGED <<failedUploads, speechVars, mixVars>>

\* POST /upload at the backend, remote-storage mode: the song is stored for
\* the owner of the token the request carries
UploadStore(up) ==
    /\ up \in uploads
    /\ up.stage = "sent"
    /\ up.user # NoUser
    /\ nextSong <= MaxSongs
    /\ remote' = remote \cup
          {[song_id |-> nextSong, uid |-> up.user, created_at |-> <<"iso", now>>]}
    /\ nextSong' = nextSong + 1
    /\ uploads' = (uploads \ {up}) \cup
          {[up EXCEPT !.stage = "stored", !.song_id = nextSong]}
    /\ last' = Step("uploadStore", FALSE)
    /\ UNCHANGED <<currentUser, urls, isInitialized, isLoading, storage, now,
                   loads, deletes, playVars>>
    /\ UNCHANGED <<failedUploads, speechVars, mixVars>>

\* newMusicUrl of the two response shapes
NewJsonUrl(up, clock) ==
    [id |-> <<"t", clock>>, song_id |-> up.song_id, uid |-> up.user,
     addedAt |-> clock, cacheKey |-> NoKey, blob |-> FALSE]

NewZipUrl(key, clock) ==
    [id |-> <<"t", clock>>, song_id |-> NoSong, uid |-> NoUser,
     addedAt |-> clock, cacheKey |-> key, blob |-> TRUE]

\* variant: the new track is put at the end
AppendLast(newMusicUrl, prev) == Append(prev, newMusicUrl)

\* setUrls(prev => [newMusicUrl, ...prev])
Prepend(newMusicUrl, prev) == <<newMusicUrl>> \o prev

\* variant: the response is used without looking at its status
NeverThrows(shape) == FALSE

\* the upload fetch rejects, answers !res.ok, or its body cannot be read
Throws(shape) == shape = "fail"

\* addAudioFile after the upload fetch: a failed upload throws, a successful
\* one prepends the new track; finally setIsLoading(false)
AddDone(up, shape, key) ==
    /\ up \in uploads
    /\ uploads' = uploads \ {up}
    /\ isLoading' = FALSE
    /\ IF Throws(shape)
       THEN /\ key = NoKey
            /\ urls' = urls
            /\ storage' = storage
            /\ failedUploads' = failedUploads \cup ({up.song_id} \ {NoSong})
            /\ last' = Step("addFailed", TRUE)
       ELSE /\ Len(urls) < MaxList
            /\ IF shape = "zip"
               THEN /\ key # NoKey
                    /\ up.stage = "sent"
                    /\ urls' = Prepend(NewZipUrl(key, now), urls)
               ELSE /\ key = NoKey
                    /\ up.stage = "stored"
                    /\ urls' = Prepend(NewJsonUrl(up, now), urls)
            /\ storage' = Persist(urls', isInitialized, storage)
            /\ failedUploads' = failedUploads
            /\ last' = Step("added", FALSE)
    /\ UNCHANGED <<currentUser, isInitialized, remote, now, loads, deletes,
                   nextSong, playVars>>
    /\ UNCHANGED <<speechVars, mixVars>>

\* variant: find settles on the first track whatever its id
FindAny(list, id) == IF list = <<>> THEN 0 ELSE 1

\* urls.find(u => u.id === id): its index, 0 standing for undefined
FindById(list, id) ==
    LET hits == {i \in 1..Len(list) : list[i].id = id}
    IN IF hits = {} THEN 0 ELSE CHOOSE i \in hits : \A j \in hits : i <= j

\* if (!itemToRemove) return;
NotFound(index) == index = 0

\* variant: the list is left as it is until the backend has answered
KeepAll(prev, id) == prev

\* prev.filter(url => url.id !== id)
WithoutId(prev, id) == SelectSeqBy(prev, {u \in Range(prev) : u.id # id})

\* removeMusicUrl up to the DELETE fetch; without a remote identity or a
\* signed-in user there is no await and the channels are torn down at once
RemoveCall(id) ==
    /\ LET index == FindById(urls, id)
       IN IF NotFound(index)
          THEN /\ last' = Step("removeAbsent", FALSE)
               /\ UNCHANGED <<libVars, playVars>>
          ELSE /\ urls' = WithoutId(urls, id)
               /\ storage' = Persist(urls', isInitialized, storage)
               /\ IF urls[index].song_id # NoSong /\ currentUser # NoUser
                  THEN /\ Cardinality(deletes) < MaxDeletes
                       /\ deletes' = deletes \cup
                             {[op |-> "remove", id |-> id,
                               song_id |-> urls[index].song_id, user |-> currentUser]}
                       /\ UNCHANGED playVars
                  ELSE /\ deletes' = deletes
                       /\ Teardown(id)
               /\ last' = Step("remove", FALSE)
               /\ UNCHANGED <<currentUser, isInitialized, isLoading, remote, now,
                              loads, uploads, nextSong>>
    /\ UNCHANGED <<failedUploads, speechVars, mixVars>>

\* DELETE /songs/{song_id} or DELETE /songs at the backend
Deleted(d) ==
    IF d.op = "remove"
    THEN {x \in remote : x.song_id = d.song_id /\ x.uid = d.user}
    ELSE {x \in remote : x.uid = d.user}

\* removeMusicUrl after the DELETE fetch: a failure is swallowed, then the
\* channels of the track are torn down
RemoveDone(d, ok) ==
    /\ d \in deletes
    /\ d.op = "remove"
    /\ deletes' = deletes \ {d}
    /\ remote' = IF ok THEN remote \ Deleted(d) ELSE remote
    /\ Teardown(d.id)
    /\ last' = Step(IF ok THEN "removeDone" ELSE "removeFailed", FALSE)
    /\ UNCHANGED <<currentUser, urls, isInitialized, isLoading, storage, now,
                   loads, uploads, nextSong>>
    /\ UNCHANGED <<failedUploads, speechVars, mixVars>>

\* variant: the entry is left to the persist effect
KeepItem(old) == old

\* localStorage.removeItem(STORAGE_KEY)
RemoveItem(old) == NoEntry

\* clearLibrary up to the bulk DELETE fetch
ClearCall ==
    /\ urls' = <<>>
    /\ storage' = RemoveItem(storage)
    /\ IF (\E i \in 1..Len(urls) : urls[i].song_id # NoSong) /\ currentUser # NoUser
       THEN /\ Cardinality(deletes) < MaxDeletes
            /\ deletes' = deletes \cup
                  {[op |-> "clear", id |-> NoId, song_id |-> NoSong,
                    user |-> currentUser]}
       ELSE deletes' = deletes
    /\ last' = Step("clear", FALSE)
    /\ UNCHANGED <<currentUser, isInitialized, isLoading, remote, now, loads,
                   uploads, nextSong, playVars>>
    /\ UNCHANGED <<failedUploads, speechVars, mixVars>>

\* clearLibrary after the bulk DELETE fetch: a failure is swallowed
ClearDone(d, ok) ==
    /\ d \in deletes
    /\ d.op = "clear"
    /\ deletes' = deletes \ {d}
    /\ remote' = IF ok THEN remote \ Deleted(d) ELSE remote
    /\ last' = Step(IF ok THEN "clearDone" ELSE "clearFailed", FALSE)
    /\ UNCHANGED <<currentUser, urls, isInitialized, isLoading, storage, now,
                   loads, uploads, nextSong, playVars>>
    /\ UNCHANGED <<failedUploads, speechVars, mixVars>>

Next ==
    \/ Tick
    \/ \E user \in Users \cup {NoUser} : SetUser(user)
    \/ Reload
    \/ \E l \in loads : \E response \in Responses(l.user) : LoadDone(l, response)
    \/ \E tosAgreed \in BOOLEAN : AddCall(tosAgreed)
    \/ \E up \in uploads : UploadStore(up)
    \/ \E up \in uploads : \E shape \in {"fail", "json", "zip"} :
          \E key \in CacheKeys \cup {NoKey} : AddDone(up, shape, key)
    \/ \E id \in TrackIds : RemoveCall(id)
    \/ \E d \in deletes : \E ok \in BOOLEAN : RemoveDone(d, ok)
    \/ ClearCall
    \/ \E d \in deletes : \E ok \in BOOLEAN : ClearDone(d, ok)

Spec == Init /\ [][Next]_vars

\* ---------------------------------------------------------------- playback
\* audioPool.set(key, audio): a key already in the Map keeps its place
PoolSet(pool, key, audio) ==
    IF key \in PoolKeys(pool)
    THEN [i \in 1..Len(pool) |->
            IF pool[i].key = key THEN [key |-> key, audio |-> audio] ELSE pool[i]]
    ELSE Append(pool, [key |-> key, audio |-> audio])

\* audioPool.delete(key)
PoolDelete(pool, key) ==
    SelectSeqBy(pool, {e \in Range(pool) : e.key # key})

\* the slot of the next new Audio(srcUrl)
FreeSlots == {a \in DOMAIN audios : audios[a].st = "free"}
NewSlot == CHOOSE a \in FreeSlots : \A b \in FreeSlots : a <= b

\* the count a call on this key completes with: it continues the count of
\* the key when no other call on the key is in flight, and is 0 otherwise
CountFor(key) ==
    IF (\A p \in plays : p.key # key) /\ streak[key] < MaxStreak
          /\ (key \in PoolKeys(audioPool) => streak[key] > 0)
    THEN streak[key] + 1 ELSE 0

\* the srcUrl handlePlayToggle resolves for a file of a track
SourceOf(u) ==
    IF u.song_id # NoSong /\ ~u.blob THEN "presigned"
    ELSE IF u.blob THEN "blob"
    ELSE IF u.cacheKey # NoKey THEN "cache"
    ELSE "none"

\* variant: the pool is never consulted
NoChannelSeen(pool, key) == FALSE

\* if (audioPool.has(key)) of handlePlayToggle
HasChannel(pool, key) == key \in PoolKeys(pool)

\* the position a new element starts from: that of the first element of
\* the Map when that element is not paused, the beginning otherwise
StartTime ==
    IF audioPool # <<>> /\ audios[audioPool[1].audio].st = "playing"
    THEN currentTime[audioPool[1].audio] ELSE 0

\* new Audio(srcUrl), the callbacks, and audio.play() up to its await
StartNew(key, waiting, n, by) ==
    /\ FreeSlots # {}
    /\ audios' = [audios EXCEPT ![NewSlot] = [key |-> key, st |-> "playing"]]
    /\ currentTime' = [currentTime EXCEPT ![NewSlot] = StartTime]
    /\ plays' = {IF p.key = key THEN [p EXCEPT !.n = 0] ELSE p : p \in waiting}
          \cup {[key |-> key, pc |-> "start", audio |-> NewSlot, n |-> n,
                 by |-> by]}

\* what a call reports: its own step when it was made directly, the step
\* of the caller (a record with the fields threw and did) otherwise
Direct == [op |-> "direct"]
Told(report, step) ==
    IF report.op = "direct" THEN step
    ELSE [report EXCEPT !.threw = step.threw, !.did = step.op]

\* handlePlayToggle(key, f, musicUrl) up to its first await, for a file f of
\* the track u; seen is the playingKeys of the render the function belongs
\* to, by the handlePlayAll call that awaits it
PlayToggle(u, f, seen, by, report) ==
    LET key == <<u.id, f>>
        audio == PoolGet(audioPool, key)
    IN /\ Cardinality(plays) < MaxPlays
       /\ IF HasChannel(audioPool, key)
          THEN IF key \in seen
               THEN \* audio.pause(): the toggle completes without an await
                    /\ audios' = [audios EXCEPT ![audio].st = "paused"]
                    /\ playingKeys' = playingKeys \ {key}
                    /\ pausedKeys' = pausedKeys \cup {key}
                    /\ streak' = [streak EXCEPT ![key] = CountFor(key)]
                    /\ plays' = {IF p.key = key THEN [p EXCEPT !.n = 0] ELSE p :
                                   p \in plays}
                    /\ last' = Told(report, Step("paused", FALSE))
                    /\ UNCHANGED <<audioPool, currentTime>>
               ELSE \* await audio.play() on the existing element
                    /\ audios' = [audios EXCEPT ![audio].st = "playing"]
                    /\ plays' = {IF p.key = key THEN [p EXCEPT !.n = 0] ELSE p :
                                   p \in plays}
                          \cup {[key |-> key, pc |-> "resume", audio |-> audio,
                                 n |-> CountFor(key), by |-> by]}
                    /\ streak' = IF \E p \in plays : p.key = key
                                 THEN [streak EXCEPT ![key] = 0] ELSE streak
                    /\ last' = Told(report, Step("play", FALSE))
                    /\ UNCHANGED <<audioPool, playingKeys, pausedKeys, currentTime>>
          ELSE CASE SourceOf(u) = "presigned" /\ currentUser # NoUser ->
                    \* await getPresignedUrl(song_id, filename)
                    /\ plays' = {IF p.key = key THEN [p EXCEPT !.n = 0] ELSE p :
                                   p \in plays}
                          \cup {[key |-> key, pc |-> "url", audio |-> NoAudio,
                                 n |-> CountFor(key), by |-> by]}
                    /\ streak' = IF \E p \in plays : p.key = key
                                 THEN [streak EXCEPT ![key] = 0] ELSE streak
                    /\ last' = Told(report, Step("play", FALSE))
                    /\ UNCHANGED <<audioPool, audios, playingKeys, pausedKeys,
                                   currentTime>>
                 [] SourceOf(u) \in {"blob", "cache"} ->
                    /\ StartNew(key, plays, CountFor(key), by)
                    /\ streak' = IF \E p \in plays : p.key = key
                                 THEN [streak EXCEPT ![key] = 0] ELSE streak
                    /\ last' = Told(report, Step("play", FALSE))
                    /\ UNCHANGED <<audioPool, playingKeys, pausedKeys>>
                 [] OTHER ->
                    \* 'Not authenticated' or 'No playable source'
                    /\ last' = Told(report, Step("playFailed", TRUE))
                    /\ UNCHANGED <<playVars, currentTime>>

\* handlePlayToggle of the latest render, called for a file of a visible
\* track
PlayCall(i, f) ==
    /\ i \in 1..Len(urls)
    /\ PlayToggle(urls[i], f, playingKeys, NoBatch, Direct)
    /\ UNCHANGED libVars
    /\ UNCHANGED <<failedUploads, speechVars, playAlls, currentTimes>>

\* the handlePlayAll calls once the handlePlayToggle call p has settled:
\* the call that awaits p goes on with its loop when p returned and is
\* over when p threw
Settle(p, ok) ==
    IF ok THEN {IF c.id = p.by THEN [c EXCEPT !.ready = TRUE] ELSE c : c \in playAlls}
    ELSE {c \in playAlls : c.id # p.by}

\* handlePlayToggle after await getPresignedUrl
PlayUrlDone(p, ok) ==
    /\ p \in plays
    /\ p.pc = "url"
    /\ IF ok
       THEN /\ StartNew(p.key, plays \ {p}, p.n, p.by)
            /\ streak' = streak
            /\ playAlls' = playAlls
            /\ last' = Step("play", FALSE)
       ELSE /\ plays' = plays \ {p}
            /\ streak' = [streak EXCEPT ![p.key] = 0]
            /\ audios' = audios
            /\ playAlls' = Settle(p, FALSE)
            /\ last' = Step("playFailed", TRUE)
            /\ UNCHANGED currentTime
    /\ UNCHANGED <<libVars, audioPool, playingKeys, pausedKeys>>
    /\ UNCHANGED <<failedUploads, speechVars, currentTimes>>

\* variant: the new element is put into the Map whether play() resolved
\* or not
RegisteredAnyway(pool, p, ok) ==
    IF p.pc = "start" THEN PoolSet(pool, p.key, p.audio) ELSE pool

\* the Map after await audio.play() of the call p: audioPool.set(key, audio)
\* is reached for a new element whose play() resolved
Registered(pool, p, ok) ==
    IF ok /\ p.pc = "start" THEN PoolSet(pool, p.key, p.audio) ELSE pool

\* handlePlayToggle after await audio.play(): audioPool.set and the key
\* sets for a new element, the key sets alone for a resumed one.  The
\* promise of an element that was paused or released meanwhile rejects.
PlayStarted(p, ok) ==
    /\ p \in plays
    /\ p.pc \in {"start", "resume"}
    /\ plays' = plays \ {p}
    /\ audioPool' = Registered(audioPool, p, ok)
    /\ IF ok
       THEN /\ audios[p.audio].st = "playing"
            /\ audios' = Collect(audios, audioPool', plays')
            /\ playingKeys' = playingKeys \cup {p.key}
            /\ pausedKeys' = IF p.pc = "resume" THEN pausedKeys \ {p.key}
                             ELSE pausedKeys
            /\ streak' = [streak EXCEPT ![p.key] = p.n]
            /\ last' = Step("playing", FALSE)
       ELSE /\ audios' = Collect(
                  [audios EXCEPT ![p.audio].st =
                      IF @ = "playing" THEN "paused" ELSE @],
                  audioPool', plays')
            /\ streak' = [streak EXCEPT ![p.key] = 0]
            /\ last' = Step("playFailed", TRUE)
            /\ UNCHANGED <<playingKeys, pausedKeys>>
    /\ playAlls' = Settle(p, ok)
    /\ UNCHANGED libVars
    /\ UNCHANGED <<failedUploads, speechVars, currentTimes, currentTime>>

\* audio.onended of an element that has been sounding
Ended(a) ==
    /\ audios[a].st = "playing"
    /\ \A p \in plays : p.audio # a
    /\ audioPool' = PoolDelete(audioPool, audios[a].key)
    /\ Disturb({audios[a].key})
    /\ audios' = Collect([audios EXCEPT ![a].st = "paused"], audioPool', plays')
    /\ playingKeys' = playingKeys \ {audios[a].key}
    /\ last' = Step("ended", FALSE)
    /\ UNCHANGED <<libVars, pausedKeys>>
    /\ UNCHANGED <<failedUploads, speechVars, mixVars>>

\* stopAllPlayback
StopAll ==
    /\ audioPool' = <<>>
    /\ Disturb(Keys)
    /\ audios' = Collect(Release(audios, PoolAudios(audioPool)), <<>>, plays')
    /\ playingKeys' = {}
    /\ pausedKeys' = {}
    /\ last' = Step("stopAll", FALSE)
    /\ UNCHANGED libVars
    /\ UNCHANGED <<failedUploads, speechVars, mixVars>>

\* a signed-in session whose library holds an archive upload of this
\* session and a song of the backend listing
PlaybackInit ==
    /\ currentUser = "alice"
    /\ urls = <<NewZipUrl("k1", 2),
                R2Url([song_id |-> 1, created_at |-> <<"iso", 1>>], "alice", 2)>>
    /\ isInitialized = TRUE
    /\ isLoading = FALSE
    /\ storage = <<"json", Sanitize(urls)>>
    /\ remote = {[song_id |-> 1, uid |-> "alice", created_at |-> <<"iso", 1>>]}
    /\ now = 2
    /\ loads = {}
    /\ uploads = {}
    /\ deletes = {}
    /\ nextSong = 2
    /\ PlayInit
    /\ SpeechInit
    /\ failedUploads = {}
    /\ last = Step("added", FALSE)

PlaybackNext ==
    \/ \E i \in 1..Len(urls) : \E f \in Range(FilesOf(urls[i])) : PlayCall(i, f)
    \/ \E p \in plays : \E ok \in BOOLEAN : PlayUrlDone(p, ok)
    \/ \E p \in plays : \E ok \in BOOLEAN : PlayStarted(p, ok)
    \/ \E a \in DOMAIN audios : Ended(a)
    \/ StopAll
    \/ \E id \in TrackIds : RemoveCall(id)
    \/ \E d \in deletes : \E ok \in BOOLEAN : RemoveDone(d, ok)

SpecPlayback == PlaybackInit /\ [][PlaybackNext]_vars

\* ---------------------------------------------------------- reconciliation
\* The reconciliation of loadLibrary on its own: a provider is constructed
\* over a stored list and an identity, mounts, and the backend answers.
StoredDates == {<<"iso", 1>>, <<"iso", 2>>, <<"null", 0>>, <<"junk", 0>>}

\* records a stored list is drawn from: an anonymous archive upload with its
\* cache key, tracks of alice that carry a remote identity (one of them with
\* a cache key, one with a date that does not parse), a track of bob's
StoredShapes ==
    {[song_id |-> NoSong, uid |-> NoUser, addedAt |-> d, cacheKey |-> "k1"] :
        d \in {<<"iso", 1>>, <<"junk", 0>>}}
    \cup {[song_id |-> n, uid |-> "alice", addedAt |-> <<"iso", n>>,
           cacheKey |-> NoKey] : n \in 1..MaxRemote}
    \cup {[song_id |-> 1, uid |-> "alice", addedAt |-> d, cacheKey |-> "k1"] :
        d \in {<<"iso", 2>>, <<"null", 0>>}}
    \cup {[song_id |-> 1, uid |-> "bob", addedAt |-> <<"iso", 2>>,
           cacheKey |-> NoKey]}

StoredLists ==
    UNION {{[i \in 1..k |->
               [id |-> <<"t", i>>, song_id |-> shape[i].song_id,
                uid |-> shape[i].uid, addedAt |-> shape[i].addedAt,
                cacheKey |-> shape[i].cacheKey]] :
            shape \in [1..k -> StoredShapes]} : k \in 1..MaxLocal}

\* /my-songs listings: every song id at most once, in song_id order, the
\* created_at of a song present, missing or not a date
SongDates == {<<"iso", 1>>, <<"iso", 2>>, <<"null", 0>>, <<"junk", 0>>}

Listings(user) ==
    UNION {{SongList({[song_id |-> n, uid |-> user, created_at |-> date[n]] :
                        n \in ids}) : date \in [ids -> SongDates]} :
           ids \in SUBSET (1..MaxRemote)}

DrawnResponses(user) ==
    {<<"ok", songs, user>> : songs \in Listings(user)}
        \cup {<<"status">>, <<"throws">>}

ReconcileInit ==
    /\ currentUser \in {NoUser, "alice"}
    /\ urls = <<>>
    /\ isInitialized = FALSE
    /\ isLoading = FALSE
    /\ storage \in {NoEntry} \cup {<<"json", list>> : list \in StoredLists}
    /\ remote = {}
    /\ now = MaxClock
    /\ loads = {}
    /\ uploads = {}
    /\ deletes = {}
    /\ nextSong = 1
    /\ PlayInit
    /\ SpeechInit
    /\ failedUploads = {}
    /\ last = Step("constructed", FALSE)

ReconcileNext ==
    \/ last.op = "constructed" /\ Reload
    \/ \E l \in loads : \E response \in DrawnResponses(l.user) :
          LoadDone(l, response)

SpecReconcile == ReconcileInit /\ [][ReconcileNext]_vars

\* ------------------------------------------------------------------- order
\* a signed-in session whose clock (Date.now()) is not the backend's: the
\* created_at of a listed song is the backend's timestamp, the addedAt of an
\* added track is the client's
OrderInit ==
    /\ currentUser = "alice"
    /\ urls = <<>>
    /\ isInitialized = FALSE
    /\ isLoading = FALSE
    /\ storage = NoEntry
    /\ remote = {}
    /\ now \in 1..MaxClock
    /\ loads = {}
    /\ uploads = {}
    /\ deletes = {}
    /\ nextSong = 1
    /\ PlayInit
    /\ SpeechInit
    /\ failedUploads = {}
    /\ last = Step("constructed", FALSE)

OrderNext ==
    \/ Tick
    \/ last.op = "constructed" /\ Reload
    \/ \E l \in loads : \E response \in DrawnResponses(l.user) :
          LoadDone(l, response)
    \/ AddCall(TRUE)
    \/ \E up \in uploads : \E key \in CacheKeys : AddDone(up, "zip", key)
    \/ \E id \in TrackIds : RemoveCall(id)
    \/ \E d \in deletes : \E ok \in BOOLEAN : RemoveDone(d, ok)

SpecOrder == OrderInit /\ [][OrderNext]_vars

\* ------------------------------------------------------------ voice session
\* SpeechControl: session n is the n-th call of startListening. sess[n] holds
\* what that call created: its microphone stream, its WebSocket and its
\* MediaRecorder. starts holds the calls suspended at getUserMedia.
Sessions == 1..MaxSessions

SpeechStep(op, n, calls, matched) ==
    [op |-> op, threw |-> FALSE, session |-> n, dispatched |-> calls,
     matched |-> matched, notice |-> "none"]

\* toast({ title, ... }): the notice the step shows
Notice(step, title) == [step EXCEPT !.notice = title]

\* if (connectionState === 'connecting') toast(...) of socket.onerror, where
\* connectionState is the value startListening closed over
ErrorNotice(seen) == IF seen = "connecting" THEN "connection" ELSE "none"

\* mediaRecorderRef.current.stop(); stream.getTracks().forEach(t => t.stop()),
\* under if (mediaRecorderRef.current && state !== 'inactive')
StopRecorder(S, r) ==
    IF r # NoSession /\ S[r].rec # "inactive"
    THEN [S EXCEPT ![r].rec = "inactive", ![r].mic = "stopped"]
    ELSE S

\* socketRef.current.close(), under if (socketRef.current): a socket that is
\* connecting or open starts closing, any other is left as it is
CloseSocket(S, k) ==
    IF k # NoSession /\ S[k].sock \in {"connecting", "open"}
    THEN [S EXCEPT ![k].sock = "closing"]
    ELSE S

\* stopListening(), called with the objects as the handler left them
StopListening(S) ==
    /\ connectionState' = "offline"
    /\ isListeningRef' = FALSE
    /\ sess' = CloseSocket(StopRecorder(S, mediaRecorderRef), socketRef)
    /\ mediaRecorderRef' = NoSession
    /\ socketRef' = NoSession
    /\ timeoutRef' = NoTimer

\* variant: a final transcript does not pause the session
NoAutoPause(isFinal) == FALSE

\* if (isFinal) { processCommand(transcript); ...; stopListening() }
AutoPause(isFinal) == isFinal

\* resetInactivityTimeout(): clearTimeout, setTimeout(..., 10000)
ResetInactivityTimeout(old) == InactivityTimeout

\* toggleListening() while offline: startListening() up to its first await
Start ==
    /\ connectionState = "offline"
    /\ started < MaxSessions
    /\ started' = started + 1
    /\ starts' = starts \cup {started + 1}
    /\ connectionState' = "connecting"
    /\ sess' = [sess EXCEPT ![started + 1] =
                  [@ EXCEPT !.seen = connectionState, !.urls = urls,
                            !.playingKeys = playingKeys]]
    /\ last' = SpeechStep("start", started + 1, 0, FALSE)
    /\ UNCHANGED <<isListeningRef, socketRef, mediaRecorderRef, timeoutRef>>
    /\ UNCHANGED <<libVars, playVars, failedUploads, mixVars>>

\* toggleListening() while online (the button is disabled while connecting)
StopClick ==
    /\ connectionState = "online"
    /\ StopListening(sess)
    /\ last' = SpeechStep("stopClick", NoSession, 0, FALSE)
    /\ UNCHANGED <<starts, started>>
    /\ UNCHANGED <<libVars, playVars, failedUploads, mixVars>>

\* getUserMedia resolves: the socket is created and stored in socketRef
GrantMic(s) ==
    /\ s \in starts
    /\ starts' = starts \ {s}
    /\ sess' = [sess EXCEPT ![s].mic = "live", ![s].sock = "connecting"]
    /\ socketRef' = s
    /\ last' = SpeechStep("micGranted", s, 0, FALSE)
    /\ UNCHANGED <<connectionState, isListeningRef, mediaRecorderRef,
                   timeoutRef, started>>
    /\ UNCHANGED <<libVars, playVars, failedUploads, mixVars>>

\* getUserMedia rejects: catch (err) { toast; stopListening() }
DenyMic(s) ==
    /\ s \in starts
    /\ starts' = starts \ {s}
    /\ StopListening(sess)
    /\ last' = Notice(SpeechStep("micDenied", s, 0, FALSE), "microphone")
    /\ UNCHANGED started
    /\ UNCHANGED <<libVars, playVars, failedUploads, mixVars>>

\* socket.onopen of session s
SocketOpen(s) ==
    /\ sess[s].sock = "connecting"
    /\ connectionState' = "online"
    /\ isListeningRef' = TRUE
    /\ timeoutRef' = ResetInactivityTimeout(timeoutRef)
    /\ sess' = [sess EXCEPT ![s].sock = "open", ![s].rec = "recording"]
    /\ mediaRecorderRef' = s
    /\ last' = SpeechStep("socketOpen", s, 0, FALSE)
    /\ UNCHANGED <<socketRef, starts, started>>
    /\ UNCHANGED <<libVars, playVars, failedUploads, mixVars>>

\* socket.onmessage of session s: a frame { transcript, isFinal }; matched is
\* what processCommand returns for the text
SocketMessage(s, transcript, isFinal, matched) ==
    /\ sess[s].sock = "open"
    /\ IF transcript /\ AutoPause(isFinal)
       THEN /\ StopListening(sess)
            /\ last' = Notice(SpeechStep("final", s, 1, matched),
                               IF matched THEN "command" ELSE "none")
       ELSE /\ timeoutRef' = IF transcript
                             THEN ResetInactivityTimeout(timeoutRef)
                             ELSE timeoutRef
            /\ last' = SpeechStep(IF transcript /\ isFinal THEN "final"
                                  ELSE IF transcript THEN "interim"
                                  ELSE "emptyFrame", s,
                                  IF transcript /\ isFinal THEN 1 ELSE 0,
                                  transcript /\ isFinal /\ matched)
            /\ UNCHANGED <<connectionState, isListeningRef, socketRef,
                           mediaRecorderRef, sess>>
    /\ UNCHANGED <<starts, started>>
    /\ UNCHANGED <<libVars, playVars, failedUploads, mixVars>>

\* the connection of session s fails (also while its closing handshake is
\* running): socket.onerror, whose toast branch does not change the state
SocketError(s) ==
    /\ sess[s].sock \in {"connecting", "open", "closing"}
    /\ StopListening([sess EXCEPT ![s].sock = "failed"])
    /\ last' = Notice(SpeechStep("socketError", s, 0, FALSE),
                       ErrorNotice(sess[s].seen))
    /\ UNCHANGED <<starts, started>>
    /\ UNCHANGED <<libVars, playVars, failedUploads, mixVars>>

\* the close event of session s: socket.onclose
SocketClose(s) ==
    /\ sess[s].sock \in {"open", "closing", "failed"}
    /\ IF isListeningRef
       THEN /\ StopListening([sess EXCEPT ![s].sock = "closed"])
            /\ last' = SpeechStep("socketClosed", s, 0, FALSE)
       ELSE /\ sess' = [sess EXCEPT ![s].sock = "closed"]
            /\ last' = SpeechStep("socketClosedIdle", s, 0, FALSE)
            /\ UNCHANGED <<connectionState, isListeningRef, socketRef,
                           mediaRecorderRef, timeoutRef>>
    /\ UNCHANGED <<starts, started>>
    /\ UNCHANGED <<libVars, playVars, failedUploads, mixVars>>

\* time passes while the inactivity timer is pending
Elapse ==
    /\ timeoutRef > Quantum
    /\ timeoutRef' = timeoutRef - Quantum
    /\ last' = SpeechStep("elapse", NoSession, 0, FALSE)
    /\ UNCHANGED <<connectionState, isListeningRef, socketRef, mediaRecorderRef,
                   sess, starts, started>>
    /\ UNCHANGED <<libVars, playVars, failedUploads, mixVars>>

\* the callback of setTimeout: if (isListeningRef.current) stopListening()
TimerFire ==
    /\ timeoutRef > 0
    /\ timeoutRef <= Quantum
    /\ IF isListeningRef
       THEN /\ StopListening(sess)
            /\ last' = SpeechStep("timeout", NoSession, 0, FALSE)
       ELSE /\ timeoutRef' = Fired
            /\ last' = SpeechStep("timeoutIdle", NoSession, 0, FALSE)
            /\ UNCHANGED <<connectionState, isListeningRef, socketRef,
                           mediaRecorderRef, sess>>
    /\ UNCHANGED <<starts, started>>
    /\ UNCHANGED <<libVars, playVars, failedUploads, mixVars>>

SpeechNext ==
    \/ Start
    \/ StopClick
    \/ \E s \in Sessions : GrantMic(s)
    \/ \E s \in Sessions : DenyMic(s)
    \/ \E s \in Sessions : SocketOpen(s)
    \/ \E s \in Sessions : \E transcript, isFinal, matched \in BOOLEAN :
          SocketMessage(s, transcript, isFinal, matched)
    \/ \E s \in Sessions : SocketError(s)
    \/ \E s \in Sessions : SocketClose(s)
    \/ Elapse
    \/ TimerFire

SpecSpeech == Init /\ [][SpeechNext]_vars

\* -------------------------------------------------------- command dispatcher
\* processCommand of SpeechControl, over JavaScript strings.
\* String.prototype.includes / endsWith
Includes(text, pat) ==
    \E i \in 1..(Len(text) + 1 - Len(pat)) : SubSeq(text, i, i + Len(pat) - 1) = pat

EndsWith(text, pat) ==
    /\ Len(text) >= Len(pat)
    /\ SubSeq(text, Len(text) + 1 - Len(pat), Len(text)) = pat

UpperCase == "ABCDEFGHIJKLMNOPQRSTUVWXYZ"
LowerCase == "abcdefghijklmnopqrstuvwxyz"

LowerChar(c) ==
    IF \E i \in 1..Len(UpperCase) : SubSeq(UpperCase, i, i) = c
    THEN LET i == CHOOSE n \in 1..Len(UpperCase) : SubSeq(UpperCase, n, n) = c
         IN SubSeq(LowerCase, i, i)
    ELSE c

\* String.prototype.toLowerCase
RECURSIVE ToLowerCase(_)
ToLowerCase(text) ==
    IF text = "" THEN ""
    ELSE LowerChar(SubSeq(text, 1, 1)) \o ToLowerCase(SubSeq(text, 2, Len(text)))

\* String.prototype.trim
RECURSIVE Trim(_)
Trim(text) ==
    IF text = "" THEN ""
    ELSE IF SubSeq(text, 1, 1) = " " THEN Trim(SubSeq(text, 2, Len(text)))
    ELSE IF SubSeq(text, Len(text), Len(text)) = " "
         THEN Trim(SubSeq(text, 1, Len(text) - 1))
    ELSE text

\* const text = transcript.toLowerCase().trim()
Normalize(transcript) == Trim(ToLowerCase(transcript))

\* String.prototype.startsWith(pat, i - 1)
StartsAt(text, i, pat) ==
    /\ i + Len(pat) - 1 <= Len(text)
    /\ SubSeq(text, i, i + Len(pat) - 1) = pat

Least(S) == CHOOSE n \in S : \A m \in S : n <= m
Greatest(S) == CHOOSE n \in S : \A m \in S : n >= m

\* text.match(/select (.+)/i): <<>> for null, else the captured group
SelectStemMatch(text) ==
    LET at == {i \in 1..Len(text) :
                  StartsAt(text, i, "select ") /\ i + 7 <= Len(text)}
    IN IF at = {} THEN <<>> ELSE <<SubSeq(text, Least(at) + 7, Len(text))>>

\* where a separator " for " or " from " starts that can end the first group
\* of a match beginning at i
Separators(text, i) ==
    {j \in (i + 6)..Len(text) :
        \/ StartsAt(text, j, " for ") /\ j + 5 <= Len(text)
        \/ StartsAt(text, j, " from ") /\ j + 6 <= Len(text)}

\* text.match(/play (.+) (?:for|from) (.+)/i): <<>> for null, else the two
\* groups of the leftmost match, the first group greedy
StemMatch(text) ==
    LET at == {i \in 1..Len(text) :
                  StartsAt(text, i, "play ") /\ Separators(text, i) # {}}
    IN IF at = {} THEN <<>>
       ELSE LET i == Least(at)
                j == Greatest(Separators(text, i))
                n == IF StartsAt(text, j, " for ") THEN 5 ELSE 6
            IN <<SubSeq(text, i + 5, j - 1), SubSeq(text, j + n, Len(text))>>

\* variant: the captured name is used as it is
NoAlias(stemId) == stemId

\* the alias chain of the select pattern, in its order
NormalizeStem(stemId) ==
    LET a == IF Includes(stemId, "drum") \/ Includes(stemId, "percussion")
             THEN "percussion" ELSE stemId
        b == IF Includes(a, "vocal") THEN "vocals" ELSE a
        c == IF Includes(b, "instrumental") \/ Includes(b, "instrument")
             THEN "instrumental" ELSE b
    IN IF Includes(c, "original") \/ Includes(c, "source")
       THEN "original audio" ELSE c

ValidStems ==
    {"vocals", "percussion", "bass", "other", "instrumental", "original audio"}

\* lastPart.split('.')[0].toLowerCase() of a file name without directories
RECURSIVE BeforeDot(_)
BeforeDot(name) ==
    IF name = "" \/ SubSeq(name, 1, 1) = "." THEN ""
    ELSE SubSeq(name, 1, 1) \o BeforeDot(SubSeq(name, 2, Len(name)))

Basename(filename) == ToLowerCase(BeforeDot(filename))

\* lastPart.split('.').pop(): what follows the last dot, the whole name
\* when it has none
RECURSIVE AfterDot(_)
AfterDot(name) ==
    IF Includes(name, ".")
    THEN AfterDot(SubSeq(name, Len(BeforeDot(name)) + 2, Len(name)))
    ELSE name

AudioExtensions == {"mp3", "wav", "ogg", "flac", "aac", "m4a"}

IsAudioFile(filename) == ToLowerCase(AfterDot(filename)) \in AudioExtensions

\* the mapping table of generateLayersFromFiles
LayerNames ==
    [original |-> "Original Audio", vocals |-> "Vocals", vocal |-> "Vocals",
     bass |-> "Bass", drums |-> "Percussion", drum |-> "Percussion",
     other |-> "Other", instrumental |-> "Instrumental"]

\* basename.charAt(0).toUpperCase() + basename.slice(1)
Capitalize(name) ==
    IF name = "" THEN ""
    ELSE LET c == SubSeq(name, 1, 1)
             up == IF \E i \in 1..Len(LowerCase) : SubSeq(LowerCase, i, i) = c
                   THEN LET i == CHOOSE n \in 1..Len(LowerCase) :
                                     SubSeq(LowerCase, n, n) = c
                        IN SubSeq(UpperCase, i, i)
                   ELSE c
         IN up \o SubSeq(name, 2, Len(name))

\* the layer a file contributes, if any: a name of the table for an audio
\* file, the capitalized base name for any other .mp3 or .wav file
LayerOf(filename) ==
    LET basename == Basename(filename)
    IN IF filename = "" \/ ~IsAudioFile(filename) THEN <<>>
       ELSE IF basename \in DOMAIN LayerNames
       THEN <<[id |-> basename, name |-> LayerNames[basename]]>>
       ELSE IF \/ EndsWith(ToLowerCase(filename), ".mp3")
               \/ EndsWith(ToLowerCase(filename), ".wav")
       THEN <<[id |-> basename, name |-> Capitalize(basename)]>>
       ELSE <<>>

\* files.forEach: a layer is pushed unless one with its id is there already
RECURSIVE PushLayers(_, _)
PushLayers(files, layers) ==
    IF files = <<>> THEN layers
    ELSE LET l == LayerOf(Head(files))
         IN PushLayers(Tail(files),
               IF l # <<>> /\ \A i \in 1..Len(layers) : layers[i].id # l[1].id
               THEN layers \o l ELSE layers)

\* the place of a character in the collation of localeCompare: letters
\* without regard to case, anything else before them
CharRank(c) ==
    IF \E i \in 1..Len(LowerCase) : SubSeq(LowerCase, i, i) = LowerChar(c)
    THEN CHOOSE i \in 1..Len(LowerCase) : SubSeq(LowerCase, i, i) = LowerChar(c)
    ELSE 0

\* a.localeCompare(b) < 0, for names made of letters and blanks
RECURSIVE Precedes(_, _)
Precedes(a, b) ==
    IF b = "" THEN FALSE
    ELSE IF a = "" THEN TRUE
    ELSE IF CharRank(SubSeq(a, 1, 1)) # CharRank(SubSeq(b, 1, 1))
         THEN CharRank(SubSeq(a, 1, 1)) < CharRank(SubSeq(b, 1, 1))
    ELSE Precedes(SubSeq(a, 2, Len(a)), SubSeq(b, 2, Len(b)))

\* the comparators of the two sorts, as "a goes before b": that of
\* generateLayersFromFiles puts the layer "original" first, that of
\* loadLibrary compares the names alone
LayerBefore(a, b, originalFirst) ==
    IF originalFirst /\ a.id = "original" THEN TRUE
    ELSE IF originalFirst /\ b.id = "original" THEN FALSE
    ELSE Precedes(a.name, b.name)

\* Array.prototype.sort of a list of layers: stable
RECURSIVE SortLayers(_, _)
SortLayers(layers, originalFirst) ==
    IF layers = <<>> THEN <<>>
    ELSE LET rest == SortLayers(SubSeq(layers, 1, Len(layers) - 1), originalFirst)
             x == layers[Len(layers)]
             k == Cardinality({i \in 1..Len(rest) :
                                 ~LayerBefore(x, rest[i], originalFirst)})
         IN SubSeq(rest, 1, k) \o <<x>> \o SubSeq(rest, k + 1, Len(rest))

\* generateLayersFromFiles(files), files being the list of the file names
GenerateLayersFromFiles(files) == SortLayers(PushLayers(files, <<>>), TRUE)

\* the layers of a stored record in loadLibrary: the stored layers, or those
\* generated from the stored files, sorted by name
StoredLayers(layers, files) ==
    SortLayers(IF Len(layers) > 0 THEN layers ELSE GenerateLayersFromFiles(files),
               FALSE)

\* title: file.name of an archive upload, song.title of a listed song
TitleOf(u) == IF u.blob THEN "Song One.mp3" ELSE "Song Two"

LayersOf(u) == GenerateLayersFromFiles(FilesOf(u))

\* urls.find(u => u.title.toLowerCase().includes(songTitle)): 0 for undefined
FindSong(lib, songTitle) ==
    LET hit == {i \in 1..Len(lib) : Includes(ToLowerCase(TitleOf(lib[i])), songTitle)}
    IN IF hit = {} THEN 0 ELSE Least(hit)

\* song.layers.find(...): 0 for undefined
FindLayer(layers, stemName) ==
    LET hit == {i \in 1..Len(layers) :
                  \/ Includes(ToLowerCase(layers[i].name), stemName)
                  \/ Includes(ToLowerCase(layers[i].id), stemName)
                  \/ (stemName = "original audio" /\ layers[i].id = "original")
                  \/ (stemName = "percussion" /\ layers[i].id = "drums")}
    IN IF hit = {} THEN 0 ELSE Least(hit)

\* song.files.find(file => basename === layer.id.toLowerCase()): 0 for undefined
FindFile(files, layerId) ==
    LET hit == {i \in 1..Len(files) : Basename(files[i]) = ToLowerCase(layerId)}
    IN IF hit = {} THEN 0 ELSE Least(hit)

\* what a block of processCommand does: navigate, a context call, an event
Action(kind, arg, id) == [id |-> id, kind |-> kind, arg |-> arg]

\* the blocks of processCommand in the order of the source
NumPatterns == 18

\* the condition of the k-th block
Matches(k, text) ==
    CASE k = 1 -> Includes(text, "go to profile")
      [] k = 2 -> Includes(text, "go home") \/ Includes(text, "go to home")
      [] k = 3 -> Includes(text, "go back") \/ Includes(text, "back to app")
      [] k = 4 -> \/ Includes(text, "go to pricing")
                  \/ Includes(text, "view pricing")
                  \/ Includes(text, "show pricing")
      [] k = 5 -> Includes(text, "view profile") \/ Includes(text, "show profile")
      [] k = 6 -> Includes(text, "play all") \/ Includes(text, "play music")
      [] k = 7 -> Includes(text, "stop music") \/ Includes(text, "stop all")
      [] k = 8 -> Includes(text, "clear library")
      [] k = 9 -> Includes(text, "refresh page") \/ Includes(text, "refresh")
      [] k = 10 -> Includes(text, "logout") \/ Includes(text, "sign out")
      [] k = 11 -> \/ EndsWith(text, "done")
                   \/ text = "stop listening"
                   \/ text = "turn off"
      [] k = 12 -> Includes(text, "upload file") \/ Includes(text, "upload music")
      [] k = 13 -> \/ Includes(text, "split song")
                   \/ Includes(text, "split music")
                   \/ Includes(text, "split")
      [] k = 14 -> \/ Includes(text, "view tos")
                   \/ Includes(text, "view terms")
                   \/ Includes(text, "show terms")
      [] k = 15 -> Includes(text, "select all stems") \/ Includes(text, "select all")
      [] k = 16 -> \/ Includes(text, "deselect all stems")
                   \/ Includes(text, "deselect all")
                   \/ Includes(text, "clear stems")
      [] k = 17 -> SelectStemMatch(text) # <<>>
      [] k = 18 -> StemMatch(text) # <<>>

\* the body of the select block: the event it dispatches, if any
SelectStem(text) ==
    LET stemId == NormalizeStem(Trim(SelectStemMatch(text)[1]))
    IN IF stemId \in ValidStems
       THEN <<Action("selectStem", stemId, NoId)>> ELSE <<>>

\* the body of the targeted playback block: the handlePlayToggle call, if any
PlayStem(text, lib) ==
    LET stemName == Trim(StemMatch(text)[1])
        songTitle == Trim(StemMatch(text)[2])
        song == FindSong(lib, songTitle)
        layer == IF song = 0 THEN 0 ELSE FindLayer(LayersOf(lib[song]), stemName)
        f == IF layer = 0 THEN 0
             ELSE FindFile(FilesOf(lib[song]), LayersOf(lib[song])[layer].id)
    IN IF f = 0 THEN <<>>
       ELSE <<Action("playToggle", FilesOf(lib[song])[f], lib[song].id)>>

\* what the k-th block does before it returns, for the list it closed over
ActionsOf(k, text, lib) ==
    CASE k \in {1, 5} -> <<Action("navigate", "/profile", NoId)>>
      [] k = 2 -> <<Action("navigate", "/", NoId)>>
      [] k = 3 -> <<Action("navigate", "-1", NoId)>>
      [] k = 4 -> <<Action("navigate", "/pricing", NoId)>>
      [] k = 6 -> IF Len(lib) > 0 THEN <<Action("playAll", "", lib[1].id)>> ELSE <<>>
      [] k = 7 -> <<Action("stopAllPlayback", "", NoId)>>
      [] k = 8 -> <<Action("clearLibrary", "", NoId)>>
      [] k = 9 -> <<Action("reload", "", NoId)>>
      [] k = 10 -> <<Action("logout", "", NoId)>>
      [] k = 11 -> <<Action("stopListening", "", NoId)>>
      [] k = 12 -> <<Action("click", "audioUpload", NoId)>>
      [] k = 13 -> <<Action("event", "voice-trigger-split", NoId)>>
      [] k = 14 -> <<Action("event", "voice-view-tos", NoId)>>
      [] k = 15 -> <<Action("selectStem", "all", NoId)>>
      [] k = 16 -> <<Action("selectStem", "none", NoId)>>
      [] k = 17 -> SelectStem(text)
      [] k = 18 -> PlayStem(text, lib)

\* variant: a block that does not return after its action
FallsThrough(k) == FALSE

\* every block ends with return true
Returns(k) == TRUE

\* the blocks from the k-th on, acts being what the earlier ones did
RECURSIVE RunFrom(_, _, _, _, _)
RunFrom(k, text, lib, acts, hit) ==
    IF k > NumPatterns
    THEN [matched |-> FALSE, actions |-> acts, pattern |-> hit]
    ELSE IF Matches(k, text)
         THEN IF Returns(k)
              THEN [matched |-> TRUE, actions |-> acts \o ActionsOf(k, text, lib),
                    pattern |-> k]
              ELSE RunFrom(k + 1, text, lib, acts \o ActionsOf(k, text, lib), k)
         ELSE RunFrom(k + 1, text, lib, acts, hit)

\* processCommand(transcript) with urls = lib
ProcessCommand(transcript, lib) == RunFrom(1, Normalize(transcript), lib, <<>>, 0)

\* transcripts of final frames
Utterances ==
    {"go to profile", "Go Home", "go to home", "go back", "back to app",
     "go to pricing", "view pricing", "show pricing", "view profile",
     "show profile", "view profile and go home", "play all", " Play Music ",
     "stop music", "stop all", "clear library", "refresh page", "refresh",
     "logout", "sign out", "i am done", "stop listening", "turn off",
     "please turn off", "upload file", "upload music", "split song",
     "splitting", "view tos", "view terms", "show terms", "select all stems",
     "select all", "deselect all stems", "deselect all", "clear stems",
     "select drums", "Select Percussion", "select vocal", "select vocals",
     "select instrument", "select instrumental", "select original",
     "select source", "select bass", "select other", "select guitar",
     "select bass please", "deselect bass", "select drums done", "select ",
     "play vocals from song", "play vocals for two", "play vocal from one",
     "play original audio from song", "play guitar from song",
     "play vocals from nothing", "play percussion from song",
     "play o from song two", "play for from for song", "play from song",
     "hello world", "", "play"}

\* the lists processCommand may have closed over: empty, an archive upload
\* before a listed song, and the reverse
CommandLibraries ==
    {<<>>,
     <<NewZipUrl("k1", 2),
       R2Url([song_id |-> 1, created_at |-> <<"iso", 1>>], "alice", 2)>>,
     <<R2Url([song_id |-> 1, created_at |-> <<"iso", 2>>], "alice", 2),
       NewZipUrl("k1", 1)>>}

\* processCommand called with a transcript while urls is lib
Dispatch(transcript, lib) ==
    \E r \in {ProcessCommand(transcript, lib)} :
       /\ last' = [op |-> "command", threw |-> FALSE, matched |-> r.matched,
                   transcript |-> transcript, lib |-> lib,
                   actions |-> r.actions, pattern |-> r.pattern]
       /\ UNCHANGED <<libVars, playVars, failedUploads, speechVars, mixVars>>

CommandNext ==
    \E transcript \in Utterances : \E lib \in CommandLibraries :
        Dispatch(transcript, lib)

SpecCommand == Init /\ [][CommandNext]_vars

\* ------------------------------------------------------------ voice playback
\* handlePlayAll and the playback commands of a voice session.
BatchIds == 1..MaxBatches
NewBatch == CHOOSE b \in BatchIds : b \notin {c.id : c \in playAlls}

\* the files after the first occurrence of f
RECURSIVE After(_, _)
After(files, f) ==
    IF files = <<>> THEN <<>>
    ELSE IF Head(files) = f THEN Tail(files) ELSE After(Tail(files), f)

\* if (!playingKeys.has(key)) of handlePlayAll, negated
Skipped(seen, key) == key \in seen

\* the files the loop of handlePlayAll still calls handlePlayToggle for
ToPlay(c) ==
    SelectSeq(c.rest, LAMBDA f : f # "original.mp3" /\ ~Skipped(c.seen, <<c.u.id, f>>))

\* handlePlayAll(musicUrl) called in a render whose playingKeys is seen
Batch(u, seen) ==
    [id |-> NewBatch, u |-> u, rest |-> FilesOf(u), seen |-> seen, ready |-> TRUE]

\* the loop of handlePlayAll from where the call c stands up to its next
\* await: the call returns when no file is left, and is over as well when
\* handlePlayToggle throws before its first await
PlayAllRun(c, report) ==
    IF ToPlay(c) = <<>>
    THEN /\ playAlls' = playAlls \ {c}
         /\ last' = Told(report, Step("playAllDone", FALSE))
         /\ UNCHANGED <<playVars, currentTime>>
    ELSE /\ PlayToggle(c.u, Head(ToPlay(c)), c.seen, c.id, report)
         /\ playAlls' =
               IF last'.threw THEN playAlls \ {c}
               ELSE (playAlls \ {c}) \cup
                       {[c EXCEPT !.rest = After(c.rest, Head(ToPlay(c))),
                                  !.ready = FALSE]}

\* what a step of a handlePlayAll call reports
BatchStep(c) ==
    [op |-> "playAll", threw |-> FALSE, did |-> "", u |-> c.u, seen |-> c.seen]

\* handlePlayAll(urls[i]) of the latest render
PlayAllCall(i) ==
    /\ i \in 1..Len(urls)
    /\ Cardinality(playAlls) < MaxBatches
    /\ PlayAllRun(Batch(urls[i], playingKeys),
                  BatchStep(Batch(urls[i], playingKeys)))
    /\ UNCHANGED libVars
    /\ UNCHANGED <<failedUploads, speechVars, currentTimes>>

\* handlePlayAll after an await handlePlayToggle that returned
PlayAllStep(c) ==
    /\ c \in playAlls
    /\ c.ready
    /\ PlayAllRun(c, BatchStep(c))
    /\ UNCHANGED libVars
    /\ UNCHANGED <<failedUploads, speechVars, currentTimes>>

\* the playback commands a session hears, and a text that is no command
VoiceUtterances ==
    {"play all", "Play vocals from song one", "play drums for song",
     "play percussion from two", "play vocals from nothing", "hello world"}

\* an archive upload with two stems before a song of the backend listing
VoiceLibrary ==
    <<NewZipUrl("k2", 2),
      R2Url([song_id |-> 1, created_at |-> <<"iso", 1>>], "alice", 2)>>

\* the lists a startListening call can close over: what removals leave
VoiceLibraries ==
    {<<>>, <<VoiceLibrary[1]>>, <<VoiceLibrary[2]>>, VoiceLibrary}

\* processCommand for each transcript and each list, evaluated once
Commands ==
    [transcript \in VoiceUtterances |->
        [lib \in VoiceLibraries |-> ProcessCommand(transcript, lib)]]

\* socket.onmessage of session s with a final transcript: processCommand of
\* the render in which startListening was called, with the urls and the
\* playingKeys of that render, the toast, then stopListening()
VoiceCommand(s, transcript) ==
    \E r \in {Commands[transcript][sess[s].urls]} :
    \E act \in {IF r.actions = <<>> THEN Action("none", "", NoId)
                ELSE r.actions[1]} :
       LET report ==
               [op |-> "voice", threw |-> FALSE, did |-> "", session |-> s,
                transcript |-> transcript, matched |-> r.matched,
                action |-> act, notice |-> IF r.matched THEN "command" ELSE "none"]
       IN /\ sess[s].sock = "open"
          /\ StopListening(sess)
          /\ CASE act.kind = "playToggle" ->
                    \E song \in {u \in Range(sess[s].urls) : u.id = act.id} :
                       /\ PlayToggle(song, act.arg, sess[s].playingKeys, NoBatch,
                                     report)
                       /\ UNCHANGED <<playAlls, currentTimes>>
               [] act.kind = "playAll" ->
                    \E song \in {u \in Range(sess[s].urls) : u.id = act.id} :
                       /\ Cardinality(playAlls) < MaxBatches
                       /\ PlayAllRun(Batch(song, sess[s].playingKeys), report)
                       /\ UNCHANGED currentTimes
               [] OTHER ->
                    /\ last' = Told(report, Step("none", FALSE))
                    /\ UNCHANGED <<playVars, mixVars>>
          /\ UNCHANGED <<starts, started>>
          /\ UNCHANGED <<libVars, failedUploads>>

\* a signed-in session whose library is VoiceLibrary
VoiceInit ==
    /\ currentUser = "alice"
    /\ urls = VoiceLibrary
    /\ isInitialized = TRUE
    /\ isLoading = FALSE
    /\ storage = <<"json", Sanitize(urls)>>
    /\ remote = {[song_id |-> 1, uid |-> "alice", created_at |-> <<"iso", 1>>]}
    /\ now = 2
    /\ loads = {}
    /\ uploads = {}
    /\ deletes = {}
    /\ nextSong = 2
    /\ PlayInit
    /\ SpeechInit
    /\ failedUploads = {}
    /\ last = Step("added", FALSE)

\* a continuation of handlePlayAll runs before any other event, and the
\* user acts while no handlePlayAll call is in flight: the user plays and
\* pauses the first stem of the first track and removes tracks
VoiceNext ==
    \/ \E c \in playAlls : PlayAllStep(c)
    \/ /\ \A c \in playAlls : ~c.ready
       /\ \/ \E p \in plays : \E ok \in BOOLEAN : PlayUrlDone(p, ok)
          \/ \E p \in plays : \E ok \in BOOLEAN : PlayStarted(p, ok)
          \/ \E s \in Sessions : GrantMic(s)
          \/ \E s \in Sessions : SocketOpen(s)
          \/ \E d \in deletes : \E ok \in BOOLEAN : RemoveDone(d, ok)
          \/ /\ playAlls = {}
             /\ \/ PlayCall(1, "vocals.mp3")
                \/ \E id \in TrackIds : RemoveCall(id)
                \/ started < MaxVoice /\ Start
                \/ \E s \in {n \in Sessions : sess[n].sock = "open"} :
                      \E transcript \in VoiceUtterances :
                         VoiceCommand(s, transcript)

SpecVoice == VoiceInit /\ [][VoiceNext]_vars

\* handlePlayAll called by a consumer of the context: the user plays and
\* pauses the files of the first track, channels end, and handlePlayAll is
\* called for a track while no other handlePlayAll call is in flight; the
\* play() of a new element can reject, that of an element of the Map resolves
PlayAllNext ==
    \/ \E c \in playAlls : PlayAllStep(c)
    \/ /\ \A c \in playAlls : ~c.ready
       /\ \/ \E p \in plays : \E ok \in BOOLEAN : PlayUrlDone(p, ok)
          \/ \E p \in plays : \E ok \in {TRUE, p.pc = "resume"} :
                PlayStarted(p, ok)
          \/ /\ playAlls = {}
             /\ \/ \E f \in Range(FilesOf(urls[1])) : PlayCall(1, f)
                \/ \E i \in 1..Len(urls) : PlayAllCall(i)
                \/ \E a \in DOMAIN audios : Ended(a)

SpecPlayAll == VoiceInit /\ [][PlayAllNext]_vars

\* -------------------------------------------------------------------- seek
Times == 0..MaxTime

\* variant: the element looked up is the first one of the Map
FirstAudio(pool, key) == IF pool = <<>> THEN NoAudio ELSE pool[1].audio

\* audioPoolRef.current.get(key)
SeekAudio(pool, key) == PoolGet(pool, key)

\* handleSeek(key, time)
Seek(key, time) ==
    LET audio == SeekAudio(audioPool, key)
    IN /\ IF audio # NoAudio
          THEN /\ currentTime' = [currentTime EXCEPT ![audio] = time]
               /\ currentTimes' = [currentTimes EXCEPT ![key] = time]
               /\ last' = [op |-> "seek", threw |-> FALSE, key |-> key,
                           time |-> time]
          ELSE /\ last' = [op |-> "seekNone", threw |-> FALSE, key |-> key,
                           time |-> time]
               /\ UNCHANGED <<currentTimes, currentTime>>
       /\ UNCHANGED <<libVars, playVars, failedUploads, speechVars, playAlls>>

\* playback of the element a advances and its ontimeupdate runs
TimeUpdate(a) ==
    /\ audios[a].st = "playing"
    /\ currentTime[a] < MaxTime
    /\ currentTime' = [currentTime EXCEPT ![a] = @ + 1]
    /\ currentTimes' = [currentTimes EXCEPT ![audios[a].key] = currentTime[a] + 1]
    /\ last' = Step("timeupdate", FALSE)
    /\ UNCHANGED <<libVars, playVars, failedUploads, speechVars, playAlls>>

\* the keys of the files of the visible tracks
VisibleKeys ==
    UNION {{<<urls[i].id, f>> : f \in Range(FilesOf(urls[i]))} : i \in 1..Len(urls)}

\* the user plays, pauses and seeks the stems of the two tracks
SeekNext ==
    \/ \E i \in 1..Len(urls) : PlayCall(i, "vocals.mp3")
    \/ \E p \in plays : \E ok \in BOOLEAN : PlayUrlDone(p, ok)
    \/ \E p \in plays : \E ok \in BOOLEAN : PlayStarted(p, ok)
    \/ \E key \in VisibleKeys : \E time \in Times : Seek(key, time)
    \/ \E a \in DOMAIN audios : TimeUpdate(a)

SpecSeek == PlaybackInit /\ [][SeekNext]_vars

\* ----------------------------------------------------------------- sources
\* The three ways handlePlayToggle resolves a source: an archive unpacked in
\* this session (blob URLs), a song of the listing (a signed URL), and an
\* archive upload read back from storage that carries no cache key, for
\* which no source resolves.
Unplayable == [NewZipUrl(NoKey, 1) EXCEPT !.blob = FALSE]

SourceInit ==
    /\ currentUser = "alice"
    /\ urls = <<NewZipUrl("k1", 2),
                R2Url([song_id |-> 1, created_at |-> <<"iso", 1>>], "alice", 2),
                Unplayable>>
    /\ isInitialized = TRUE
    /\ isLoading = FALSE
    /\ storage = <<"json", Sanitize(urls)>>
    /\ remote = {[song_id |-> 1, uid |-> "alice", created_at |-> <<"iso", 1>>]}
    /\ now = 2
    /\ loads = {}
    /\ uploads = {}
    /\ deletes = {}
    /\ nextSong = 2
    /\ PlayInit
    /\ SpeechInit
    /\ failedUploads = {}
    /\ last = Step("added", FALSE)

SourceNext ==
    \/ \E i \in 1..Len(urls) : PlayCall(i, "vocals.mp3")
    \/ \E p \in plays : \E ok \in BOOLEAN : PlayUrlDone(p, ok)
    \/ \E p \in plays : \E ok \in BOOLEAN : PlayStarted(p, ok)
    \/ \E a \in DOMAIN audios : Ended(a)
    \/ StopAll

SpecSource == SourceInit /\ [][SourceNext]_vars

\* ---------------------------------------------------------------- teardown
\* Playback while the list changes: the user plays the stems of the two
\* tracks, removes tracks, clears the library and signs out;
\* every signed URL arrives and every play() resolves.
TeardownNext ==
    \/ \E i \in 1..Len(urls) : PlayCall(i, "vocals.mp3")
    \/ \E p \in plays : PlayUrlDone(p, TRUE)
    \/ \E p \in plays : PlayStarted(p, TRUE)
    \/ \E id \in TrackIds : RemoveCall(id)
    \/ \E d \in deletes : \E ok \in BOOLEAN : RemoveDone(d, ok)
    \/ ClearCall
    \/ \E d \in deletes : \E ok \in BOOLEAN : ClearDone(d, ok)
    \/ SetUser(NoUser)

SpecTeardown == PlaybackInit /\ [][TeardownNext]_vars

\* --------------------------------------------------------------------- mix
\* The stems of one unpacked archive played together: three files, three
\* Audio elements, the user plays and pauses them while playback advances.
MixInit ==
    /\ currentUser = "alice"
    /\ urls = <<NewZipUrl("k2", 2)>>
    /\ isInitialized = TRUE
    /\ isLoading = FALSE
    /\ storage = <<"json", Sanitize(urls)>>
    /\ remote = {}
    /\ now = 2
    /\ loads = {}
    /\ uploads = {}
    /\ deletes = {}
    /\ nextSong = 1
    /\ audioPool = <<>>
    /\ audios = [a \in 1..MaxMix |-> FreeAudio]
    /\ playingKeys = {}
    /\ pausedKeys = {}
    /\ plays = {}
    /\ streak = [k \in Keys |-> 0]
    /\ playAlls = {}
    /\ currentTimes = [k \in Keys |-> NoTime]
    /\ currentTime = [a \in 1..MaxMix |-> 0]
    /\ SpeechInit
    /\ failedUploads = {}
    /\ last = Step("added", FALSE)

\* the user waits for a play call to settle before the next one, and every
\* play() resolves
MixNext ==
    \/ plays = {} /\ \E f \in Range(FilesOf(urls[1])) : PlayCall(1, f)
    \/ \E p \in plays : PlayStarted(p, TRUE)
    \/ \E a \in DOMAIN audios : TimeUpdate(a)

SpecMix == MixInit /\ [][MixNext]_vars

\* ------------------------------------------------------------------ layers
\* The layers of a track on the three ways a track gets into the list.
\* names of the files of a track: stems of the table, a stem twice under
\* different spellings, files that are no audio, stems outside the table
LayerFiles ==
    {"vocals.mp3", "drums.wav", "notes.txt", "original.mp3", "bass.mp3",
     "Vocals.MP3", "guitar.mp3", "guitar.flac", "other.txt"}

FileLists == UNION {[1..n -> LayerFiles] : n \in 1..MaxFiles}

\* the layers of a track with these files: as addAudioFile builds it from
\* the upload response, as loadLibrary builds it from the listing, and as
\* loadLibrary reads it back from the entry the persist effect wrote for it
DeriveLayers(origin, files) ==
    \E layers \in {IF origin = "stored"
                   THEN StoredLayers(GenerateLayersFromFiles(files), files)
                   ELSE GenerateLayersFromFiles(files)} :
       /\ last' = [op |-> "layers", threw |-> FALSE, files |-> files,
                   layers |-> layers, origin |-> origin]
       /\ UNCHANGED <<libVars, playVars, failedUploads, speechVars, mixVars>>

\* one derivation for a provider that has just been mounted
LayersNext ==
    /\ last.op = "mount"
    /\ \E origin \in {"added", "listed", "stored"} : \E files \in FileLists :
          DeriveLayers(origin, files)

SpecLayers == Init /\ [][LayersNext]_vars

\* ================================================================== claims
SameTrack(a, b) == a.id = b.id \/ (a.song_id # NoSong /\ a.song_id = b.song_id)

Count(list, x) == Cardinality({i \in 1..Len(list) : list[i] = x})

\* the parsed stored list a finished loadLibrary started from
StoredOf(entry) == IF entry = NoEntry THEN <<>> ELSE ParseStored(entry[2])

\* the indices of the stored records the session of `user` may see
KeptOf(list, user) ==
    {k \in 1..Len(list) : list[k].uid = NoUser \/ list[k].uid = user}

\* C1: in every reachable state no visible track has an owner other than
\* the current identity, and an anonymous session sees only unowned tracks.
C1_OwnershipInvariant ==
    \A i \in 1..Len(urls) : urls[i].uid = NoUser \/ urls[i].uid = currentUser

\* C2: a completion of an in-flight request (listing, upload, deletion)
\* never makes a visible track vanish, and a track whose removal has been
\* issued is never visible again while its deletion is pending.
CompletionOps ==
    {"loadOk", "loadLocal", "added", "addFailed", "uploadStore",
     "removeDone", "removeFailed", "clearDone", "clearFailed"}

C2_VisibleListConsistent ==
    [][/\ last'.op \in CompletionOps =>
            \A i \in 1..Len(urls) : \E j \in 1..Len(urls') :
                SameTrack(urls[i], urls'[j])
       /\ \A d \in deletes' : d.op = "remove" =>
            \A j \in 1..Len(urls') :
                urls'[j].id # d.id /\ urls'[j].song_id # d.song_id]_vars

\* C3: per key at most one Audio element exists, and every element that is
\* sounding and that no suspended call still holds is in the channel map.
C3_OneChannelPerKey ==
    /\ \A k \in Keys :
          Cardinality({a \in DOMAIN audios : audios[a].st # "free"
                                              /\ audios[a].key = k}) <= 1
    /\ \A a \in DOMAIN audios :
          (audios[a].st = "playing" /\ \A p \in plays : p.audio # a)
              => a \in PoolAudios(audioPool)

\* C4: after n consecutive completed play calls on a key that had no
\* channel, the channel exists, and it is playing when n is odd and paused
\* when n is even.
Quiet(k) == \A p \in plays : p.key # k

C4_ToggleParity ==
    \A k \in Keys : (streak[k] > 0 /\ Quiet(k)) =>
        /\ k \in PoolKeys(audioPool)
        /\ IF streak[k] % 2 = 1
           THEN /\ k \in playingKeys
                /\ audios[PoolGet(audioPool, k)].st = "playing"
           ELSE /\ k \in pausedKeys /\ k \notin playingKeys
                /\ audios[PoolGet(audioPool, k)].st = "paused"

C4_Witness ==
    \E k \in Keys : streak[k] = 3 /\ Quiet(k) /\ k \in playingKeys

\* C5: after a successful fetch the merged list holds every listed song
\* exactly once and every visible stored record without a listed song id.
C5_ReconcileMembership ==
    last.op = "loadOk" =>
        LET L == StoredOf(last.stored)
            listed == {last.response[2][n].song_id :
                          n \in 1..Len(last.response[2])}
        IN /\ \A sid \in listed :
                 Cardinality({i \in 1..Len(urls) : urls[i].song_id = sid}) = 1
           /\ \A k \in KeptOf(L, last.user) :
                 L[k].song_id \notin listed => Count(urls, L[k]) >= 1

C7_LocalFieldsKept ==
    last.op = "loadOk" =>
        LET L == StoredOf(last.stored)
            R == last.response[2]
        IN \A k \in KeptOf(L, last.user) : \A n \in 1..Len(R) :
              L[k].song_id = R[n].song_id =>
                 /\ \E i \in 1..Len(urls) :
                       /\ urls[i].song_id = L[k].song_id
                       /\ urls[i].cacheKey = L[k].cacheKey
                       /\ L[k].blob => urls[i].blob
                 /\ \E i \in 1..Len(urls) :
                       /\ urls[i].id = <<"r2", R[n].song_id>>
                       /\ urls[i].uid = last.response[3]
                       /\ urls[i].addedAt =
                             IF R[n].created_at = <<"null", 0>> THEN now
                             ELSE JsonToDate(R[n].created_at)

C7_Witness ==
    /\ last.op = "loadOk"
    /\ \E k \in KeptOf(StoredOf(last.stored), last.user) :
          \E i \in 1..Len(urls) :
             /\ StoredOf(last.stored)[k].song_id = urls[i].song_id
             /\ StoredOf(last.stored)[k].cacheKey # NoKey
             /\ urls[i].id[1] = "r2"
             /\ urls[i].cacheKey = StoredOf(last.stored)[k].cacheKey
             /\ urls[i].addedAt # StoredOf(last.stored)[k].addedAt

\* C8: every reconciliation path leaves the list sorted descending by
\* addedAt, an entry whose timestamp does not parse after every entry with
\* a later-than-epoch timestamp.
C8_SortedDescending ==
    last.op \in {"loadOk", "loadLocal", "mountLocal"} =>
        \A i, j \in 1..Len(urls) :
            /\ (i < j /\ urls[i].addedAt # InvalidDate /\ urls[j].addedAt # InvalidDate)
                  => urls[i].addedAt >= urls[j].addedAt
            /\ (urls[i].addedAt = InvalidDate /\ urls[j].addedAt # InvalidDate
                   /\ urls[j].addedAt > 0) => j < i

C8_Witness ==
    /\ last.op = "loadOk"
    /\ Len(urls) >= 3
    /\ urls[Len(urls)].addedAt = InvalidDate
    /\ urls[1].addedAt > urls[2].addedAt
    /\ StoredOf(last.stored) # <<>>
    /\ StoredOf(last.stored)[1].addedAt = InvalidDate

\* C9: removeMusicUrl with an id that is not in the visible list changes
\* nothing (list, storage, channels, key sets, backend requests) and does
\* not throw.
C9_RemoveAbsentIsNoOp ==
    [][\A id \in TrackIds : (id \notin Ids(urls) /\ RemoveCall(id)) =>
          /\ UNCHANGED <<libVars, audioPool, audios, playingKeys, pausedKeys>>
          /\ ~last'.threw]_vars

C9_Witness ==
    /\ last.op = "removeAbsent"
    /\ audioPool # <<>>
    /\ deletes # {}
    /\ \E d \in deletes : <<d.id, "vocals.mp3">> \in PoolKeys(audioPool)

\* C10: removeMusicUrl takes the track out of the visible list in the step
\* of the call, before the DELETE request completes, and a failed DELETE
\* neither changes the list nor throws.
C10_OptimisticRemoval ==
    [][/\ \A id \in TrackIds : (id \in Ids(urls) /\ RemoveCall(id)) =>
             id \notin Ids(urls')
       /\ \A d \in deletes : RemoveDone(d, FALSE) =>
             urls' = urls /\ storage' = storage /\ ~last'.threw]_vars

C10_Witness ==
    /\ last.op = "removeFailed"
    /\ \E x \in remote : x.uid = currentUser
          /\ \A i \in 1..Len(urls) : urls[i].song_id # x.song_id
    /\ isInitialized

\* C11: once a track has been removed from the visible list, no channel of
\* one of its files is in the channel map or in the playing or paused key
\* set, whatever play call or DELETE request is still in flight.
C11_RemovedTrackSilent ==
    \A k \in Keys : k[1] \notin Ids(urls) =>
        /\ k \notin PoolKeys(audioPool)
        /\ k \notin playingKeys
        /\ k \notin pausedKeys

\* C12: clearLibrary leaves the visible list empty and the storage entry
\* absent in the step of the call, and an absent entry becomes present only
\* by a step that puts tracks in the list: an upload or a reconciliation.
C12_ClearEmptiesStorage ==
    [][/\ ClearCall => (urls' = <<>> /\ storage' = NoEntry)
       /\ (storage = NoEntry /\ storage' # NoEntry) =>
             /\ urls' # <<>>
             /\ last'.op \in {"added", "loadOk", "loadLocal", "mountLocal"}]_vars

C12_Witness ==
    /\ last.op = "clear"
    /\ urls = <<>>
    /\ storage = NoEntry
    /\ \E d \in deletes : d.op = "clear"
    /\ ~isInitialized

\* C13: addAudioFile without the terms accepted throws before anything is
\* sent: no upload request, the visible list, storage and backend unchanged,
\* isLoading false afterwards.
C13_TermsRequired ==
    [][AddCall(FALSE) =>
          /\ last'.threw
          /\ uploads' = uploads
          /\ UNCHANGED <<urls, storage, remote>>
          /\ ~isLoading']_vars

C13_Witness ==
    /\ last.op = "addRejected"
    /\ last.threw
    /\ urls # <<>>
    /\ ~isLoading

\* C14: no step of an addAudioFile call that fails changes the visible list,
\* and a song the backend stored for such a call becomes visible only by a
\* step of loadLibrary that sets the list (from the listing or from storage).
SongIds(list) == {list[i].song_id : i \in 1..Len(list)}

C14_FailedUploadInvisible ==
    [][/\ \A up \in uploads :
             (UploadStore(up) \/ AddDone(up, "fail", NoKey)) =>
                 UNCHANGED <<urls, storage>>
       /\ \A up \in uploads : AddDone(up, "fail", NoKey) => last'.threw
       /\ AddCall(TRUE) => UNCHANGED <<urls, storage>>
       /\ \A sid \in failedUploads :
             (sid \notin SongIds(urls) /\ sid \in SongIds(urls')) =>
                 last'.op \in {"loadOk", "loadLocal", "mountLocal"}]_vars

C14_Witness ==
    /\ last.op = "addFailed"
    /\ failedUploads # {}
    /\ urls # <<>>

\* C14 as stated: a track of an upload whose call failed is never visible.
C14_FailedUploadNeverVisible ==
    \A i \in 1..Len(urls) : urls[i].song_id \notin failedUploads

\* C15: a successful addAudioFile puts the new track at index 1 and leaves
\* the tracks that were visible behind it in their order.
C15_PrependsNewTrack ==
    [][\A up \in uploads : \A shape \in {"json", "zip"} :
          \A key \in CacheKeys \cup {NoKey} :
             AddDone(up, shape, key) =>
                 /\ urls' # <<>>
                 /\ Tail(urls') = urls
                 /\ urls'[1].id = <<"t", now>>
                 /\ urls'[1].addedAt = now]_vars

C15_Witness ==
    /\ last.op = "added"
    /\ Len(urls) = 2
    /\ urls[1].id = <<"t", 2>>
    /\ urls[2].id = <<"t", 1>>

\* C16: while the library is not initialized, before and after the step, the
\* storage entry is neither written nor removed.
C16_NoWriteWhileLoading ==
    [][(~isInitialized /\ ~isInitialized') => storage' = storage]_vars

\* C17: the voice session state changes only along offline -> connecting,
\* connecting -> online, connecting -> offline and online -> offline, and it
\* leaves offline only by a new start.
SessionEdges ==
    {<<"offline", "connecting">>, <<"connecting", "online">>,
     <<"connecting", "offline">>, <<"online", "offline">>}

C17_SessionEdgesOnly ==
    [][connectionState' # connectionState =>
          /\ <<connectionState, connectionState'>> \in SessionEdges
          /\ connectionState = "offline" => Start]_vars

\* C18: after a step in which stopListening ran, the state is offline, no
\* microphone stream a session obtained is live, no socket is connecting or
\* open, and no inactivity timer is pending.
StopOps ==
    {"stopClick", "micDenied", "final", "socketError", "socketClosed", "timeout"}

C18_StopReleasesEverything ==
    last.op \in StopOps =>
        /\ connectionState = "offline"
        /\ \A s \in Sessions : sess[s].mic # "live"
        /\ \A s \in Sessions : sess[s].sock \notin {"connecting", "open"}
        /\ timeoutRef <= 0

\* C19: a final transcript frame received while online is handed to
\* processCommand once and the session is offline after the step, whether
\* or not the command matched.
C19_FinalDispatchedThenOffline ==
    [][\A s \in Sessions : \A matched \in BOOLEAN :
          (connectionState = "online" /\ SocketMessage(s, TRUE, TRUE, matched)) =>
              /\ last'.op = "final"
              /\ last'.session = s
              /\ last'.dispatched = 1
              /\ last'.matched = matched
              /\ connectionState' = "offline"
              /\ ~isListeningRef'
              /\ timeoutRef' = NoTimer]_vars

C19_Witness ==
    /\ last.op = "final"
    /\ last.dispatched = 1
    /\ ~last.matched
    /\ connectionState = "offline"
    /\ sess[last.session].sock = "closing"
    /\ sess[last.session].rec = "inactive"
    /\ sess[last.session].mic = "stopped"

\* C20: when the inactivity timer fires while the session is online, the
\* session is offline after the step and no microphone stream is live.
C20_TimeoutReleasesMicrophone ==
    [][(connectionState = "online" /\ TimerFire) =>
          /\ connectionState' = "offline"
          /\ \A s \in Sessions : sess'[s].mic # "live"]_vars

\* C21: an error or close event of the session's socket leaves the session
\* offline, and an error while the session is connecting shows the
\* connection-failure notice.
C21_TransportFailureNotice ==
    [][\A s \in Sessions :
          /\ ((SocketError(s) \/ SocketClose(s)) /\ socketRef = s) =>
                connectionState' = "offline"
          /\ (SocketError(s) /\ socketRef = s /\ connectionState = "connecting") =>
                last'.notice = "connection"]_vars

\* C22: when getUserMedia rejects, the session goes from connecting to
\* offline, the microphone notice is shown, and no socket is connecting or
\* open.
C22_MicrophoneDenied ==
    [][\A s \in Sessions :
          (DenyMic(s) /\ connectionState = "connecting") =>
              /\ connectionState' = "offline"
              /\ last'.notice = "microphone"
              /\ sess'[s].sock = "none"
              /\ socketRef' = NoSession
              /\ \A n \in Sessions : sess'[n].sock \notin {"connecting", "open"}]_vars

\* the patterns of processCommand that match a normalized text
Matching(text) == {k \in 1..NumPatterns : Matches(k, text)}

C24_DeselectAll ==
    last.op = "command" =>
        LET text == Normalize(last.transcript)
        IN /\ text \in {"deselect all stems", "deselect all", "clear stems"} =>
                last.actions = <<Action("selectStem", "none", NoId)>>
           /\ text \in {"select all stems", "select all"} =>
                last.actions = <<Action("selectStem", "all", NoId)>>

\* C25: an utterance that reaches the select pattern is reported as matched,
\* and a stem signal is dispatched exactly when the alias-normalized name is
\* in the stem vocabulary, carrying the normalized id.
AliasOf(name) ==
    CASE Includes(name, "drum") \/ Includes(name, "percussion") -> "percussion"
      [] Includes(name, "vocal") -> "vocals"
      [] Includes(name, "instrument") -> "instrumental"
      [] Includes(name, "original") \/ Includes(name, "source") -> "original audio"
      [] OTHER -> name

C25_SelectStem ==
    (last.op = "command" /\ last.pattern = 17) =>
        LET name == Trim(SelectStemMatch(Normalize(last.transcript))[1])
        IN /\ last.matched
           /\ IF AliasOf(name) \in ValidStems
              THEN last.actions = <<Action("selectStem", AliasOf(name), NoId)>>
              ELSE last.actions = <<>>

C25_Witness ==
    /\ last.op = "command"
    /\ last.transcript = "select drums"
    /\ last.actions = <<Action("selectStem", "percussion", NoId)>>

\* C29: after stopAll() the channel map and both key sets are empty, every
\* audio source that was in the map has been paused and released, and no
\* audio source the engine started keeps playing.
C29_StopAllSilences ==
    [][StopAll =>
          /\ audioPool' = <<>>
          /\ playingKeys' = {}
          /\ pausedKeys' = {}
          /\ \A a \in PoolAudios(audioPool) : audios'[a].st \in {"released", "free"}
          /\ \A a \in DOMAIN audios : audios'[a].st # "playing"]_vars

\* the channel of a key is playing
Sounding(key) ==
    /\ key \in PoolKeys(audioPool)
    /\ audios[PoolGet(audioPool, key)].st = "playing"

\* the channel of a key is playing or a play of it is under way
Started(key) == Sounding(key) \/ \E p \in plays : p.key = key

\* C26: an utterance whose first matching pattern is "play <stem> for|from
\* <song>" is reported as matched; when the first track whose title contains
\* the song fragment has a layer matching the stem fragment, the channel of
\* that track and file is playing after the dispatch, whatever its state
\* before; when song or stem is not found, no channel is created or changed.
C26_TargetedPlayback ==
    [][\A s \in Sessions : \A t \in VoiceUtterances :
          LET cmd == Commands[t][urls]
          IN (VoiceCommand(s, t) /\ cmd.pattern = 18) =>
                /\ last'.matched
                /\ IF cmd.actions # <<>>
                   THEN Started(<<cmd.actions[1].id, cmd.actions[1].arg>>)'
                   ELSE UNCHANGED <<playVars, mixVars>>]_vars

\* C27: "play all" / "play music" is reported as matched; with an empty
\* library it invokes no playback, with a non-empty library every file of
\* the most recently added track but the original mix gets a playing channel
\* (it is playing, being started, or next in the call), and no file of
\* another track is started.
C27_PlayAllByVoice ==
    [][\A s \in Sessions : \A t \in VoiceUtterances :
          (VoiceCommand(s, t) /\ Commands[t][urls].pattern = 6) =>
             /\ last'.matched
             /\ urls = <<>> => UNCHANGED <<playVars, mixVars>>
             /\ urls # <<>> =>
                   /\ \A f \in Range(FilesOf(urls[1])) \ {"original.mp3"} :
                         \/ Started(<<urls[1].id, f>>)'
                         \/ \E c \in playAlls' :
                               c.u.id = urls[1].id /\ f \in Range(ToPlay(c))
                   /\ \A c \in playAlls' : c.u.id = urls[1].id
                   /\ \A p \in plays' \ plays : p.key[1] = urls[1].id]_vars

\* C28: playAll(track) issues play for the files of the track one after
\* another, never for the original mix and never for a file that is
\* playing; no step of it pauses a channel, and when it completes every
\* file of the track but the original mix has a playing channel.
C28_PlayAllSkipsPlaying ==
    [][last'.op = "playAll" =>
          /\ \A a \in DOMAIN audios :
                audios[a].st = "playing" => audios'[a].st = "playing"
          /\ playingKeys \subseteq playingKeys'
          /\ \A p \in plays' :
                p.by # NoBatch =>
                   /\ p.key[1] = last'.u.id
                   /\ p.key[2] # "original.mp3"
                   /\ p.key \notin last'.seen
          /\ \A c \in playAlls' : Cardinality({p \in plays' : p.by = c.id}) <= 1
          /\ \A u \in Range(urls) :
                (last'.did = "playAllDone" /\ last'.u = u) =>
                   \A f \in Range(FilesOf(u)) \ {"original.mp3"} :
                      Sounding(<<u.id, f>>)']_vars

\* C30: seek(key, time) changes nothing when no channel exists for key;
\* when one exists, the position of that channel and the time map entry of
\* key are set to time in the same step, and the playing/paused state of
\* every channel, the positions of the other elements and the other entries
\* of the time map stay as they are.
C30_SeekFrame ==
    [][\A key \in Keys : \A time \in Times :
          (last'.op \in {"seek", "seekNone"} /\ Seek(key, time)) =>
             /\ UNCHANGED <<audioPool, audios, playingKeys, pausedKeys>>
             /\ IF key \in PoolKeys(audioPool)
                THEN /\ currentTime'[PoolGet(audioPool, key)] = time
                     /\ currentTimes'[key] = time
                     /\ \A a \in DOMAIN audios \ {PoolGet(audioPool, key)} :
                           currentTime'[a] = currentTime[a]
                     /\ \A k \in Keys \ {key} : currentTimes'[k] = currentTimes[k]
                ELSE UNCHANGED <<currentTimes, currentTime>>]_vars

C30_Witness ==
    /\ last.op = "seek"
    /\ Len(audioPool) = 2
    /\ last.key = audioPool[2].key
    /\ currentTime[audioPool[2].audio] = last.time
    /\ currentTime[audioPool[1].audio] # last.time
    /\ currentTimes[last.key] = last.time

\* ------------------------------------------------------------- diagnostics
\* what the handler of a step writes to the console: loadLibrary warns when
\* the token, the fetch or the body of /my-songs fails, and has no output in
\* its branch for a response that is not ok; the catch blocks of
\* removeMusicUrl and clearLibrary are empty; handlePlayToggle logs what it
\* rethrows
Console(step) ==
    CASE step.op = "loadLocal" ->
            IF step.response[1] = "throws" THEN "warn" ELSE "none"
      [] step.op = "playFailed" -> "error"
      [] OTHER -> "none"

\* a step in which an operation of the library met an error: the DELETE of
\* removeMusicUrl or clearLibrary failed, or the listing did
ErrorOutcome ==
    last.op \in {"removeFailed", "clearFailed", "loadLocal"}

\* C31: every error outcome of a library operation (a failed backend deletion
\* of removeTrack, a failed bulk deletion of clearLibrary, a failed remote
\* listing) writes at least one entry to the diagnostic log.
C31_ErrorsLogged ==
    ErrorOutcome => Console(last) # "none"

\* C32: when a play call creates a new channel while a channel of the map is
\* playing, the new element starts at the current position of a playing
\* channel, whatever the map holds, also when the oldest channel of the map
\* is paused and a later one is playing.
C32_PhaseAligned ==
    [][\A p \in plays' :
          (/\ p.pc = "start"
           /\ p.audio \in FreeSlots
           /\ \E k \in PoolKeys(audioPool) : Sounding(k)) =>
             \E k \in PoolKeys(audioPool) :
                /\ Sounding(k)
                /\ currentTime'[p.audio] = currentTime[PoolGet(audioPool, k)]]_vars

\* C33: the layers of every track, whether the track was created by
\* addTrack, by the remote listing or read back from durable storage, are
\* unique by id, have no layer for a file without an audio extension, and
\* are ordered with the layer "original" first and the others alphabetical
\* by display name; the files vocals.mp3, drums.wav, notes.txt give the
\* layers drums (named "Percussion") and vocals, in this order.
C33_LayersCanonical ==
    last.op = "layers" =>
       LET layers == last.layers
           files == last.files
       IN /\ \A i, j \in 1..Len(layers) : layers[i].id = layers[j].id => i = j
          /\ \A i \in 1..Len(layers) :
                \E n \in 1..Len(files) :
                   IsAudioFile(files[n]) /\ Basename(files[n]) = layers[i].id
          /\ \A i \in 1..Len(layers) : layers[i].id = "original" => i = 1
          /\ \A i, j \in 1..Len(layers) :
                (i < j /\ layers[i].id # "original") =>
                   ~Precedes(layers[j].name, layers[i].name)
          /\ files = <<"vocals.mp3", "drums.wav", "notes.txt">> =>
                layers = <<[id |-> "drums", name |-> "Percussion"],
                           [id |-> "vocals", name |-> "Vocals"]>>

\* C34: a play request that fails (no playable source, the signed-URL
\* request fails, or play() of the audio source rejects) reports the failure
\* to its caller, and neither the step in which it fails nor the part of the
\* call before its await changes the channel map or the playing and paused
\* key sets; the element the call created is in no channel and does not
\* sound.
C34_FailedPlayNoChannel ==
    [][/\ last'.op \in {"play", "playFailed"} =>
             UNCHANGED <<audioPool, playingKeys, pausedKeys>>
       /\ last'.op = "playFailed" =>
             /\ last'.threw
             /\ \A a \in DOMAIN audios :
                   audios'[a].st = "playing" => audios[a].st = "playing"
             /\ \A q \in plays \ plays' :
                   q.pc = "start" =>
                      /\ q.audio \notin PoolAudios(audioPool')
                      /\ audios'[q.audio].st # "playing"]_vars

\* a play() that rejected while another channel is playing: that channel
\* is all there is
C34_Witness ==
    /\ last.op = "playFailed"
    /\ Len(audioPool) = 1
    /\ playingKeys = {audioPool[1].key}
    /\ plays = {}
    /\ \A a \in DOMAIN audios : a # audioPool[1].audio => audios[a].st = "free"

\* C35: in every reachable state each key of the channel map belongs to a
\* track of the visible list: after removeTrack, clearLibrary or a change
\* of identity no channel of a track that is no longer visible exists.
C35_ChannelsOfVisibleTracks ==
    \A k \in PoolKeys(audioPool) : k[1] \in Ids(urls)

\* C36: in every reachable state in which no play call is suspended, the
\* playing and the paused key set are disjoint, both are subsets of the keys
\* of the channel map, and a key is in the playing set exactly when the
\* audio source of its channel is playing.
C36_KeySetsMatchChannels ==
    plays = {} =>
       /\ playingKeys \cap pausedKeys = {}
       /\ playingKeys \subseteq PoolKeys(audioPool)
       /\ pausedKeys \subseteq PoolKeys(audioPool)
       /\ \A k \in PoolKeys(audioPool) :
             k \in playingKeys <=> audios[PoolGet(audioPool, k)].st = "playing"

\* C37: the ids of the tracks of the visible list are pairwise distinct in
\* every reachable state, after any sequence of uploads (also of two that
\* complete at the same clock value) and of reconciliations.
C37_DistinctIds ==
    \A i, j \in 1..Len(urls) : urls[i].id = urls[j].id => i = j

\* C38: a transcript frame is processed only while the voice session is
\* online: a frame handled after the session has gone offline dispatches no
\* command and arms no inactivity timer, and the socket that delivered a
\* final transcript delivers no further frame, so a session dispatches at
\* most one command.
C38_DispatchOnlyOnline ==
    [][last'.op \in {"final", "interim"} =>
          /\ connectionState = "online"
          /\ last'.op = "final" => sess'[last'.session].sock # "open"]_vars

\* C39: a voice command acts on the library as it is when the final
\* utterance arrives: what "play all" or "play <stem> from <song>" does is
\* what processCommand gives for the visible list of that moment, and no
\* playback is started for a track that is not in the visible list.
C39_CommandSeesCurrentLibrary ==
    [][\A s \in Sessions : \A t \in VoiceUtterances :
          VoiceCommand(s, t) =>
             /\ last'.action =
                   IF Commands[t][urls].actions = <<>>
                   THEN Action("none", "", NoId)
                   ELSE Commands[t][urls].actions[1]
             /\ \A p \in plays' \ plays : p.key[1] \in Ids(urls)
             /\ \A c \in playAlls' : c.u.id \in Ids(urls)]_vars

\* C40: in every initialized state the visible list is sorted descending
\* by addedAt, so that its first element is the most recently added track:
\* adding (a prepend stamped with the client clock), removing and
\* reconciling with the backend's timestamps all keep the order.
C40_SortedByAddedAt ==
    isInitialized =>
        \A i, j \in 1..Len(urls) :
            (i < j /\ urls[i].addedAt # InvalidDate
                   /\ urls[j].addedAt # InvalidDate)
                => urls[i].addedAt >= urls[j].addedAt
====
